---- MODULE Spec2Model ----
(***************************************************************************)
(* SkillFit-AI scoring-and-validation engine.                              *)
(*                                                                         *)
(* Numbers: every score is an integer number of hundredths of a point      *)
(* (5004 is 50.04 points), so the fractional scores a generator may return *)
(* and the one-decimal rounding of the endpoint are both representable.    *)
(* Text: a text is the list of its lines (Python's text.split('\n'), never *)
(* empty); a line is a sequence of one-character strings.  The canonical   *)
(* bullet U+2022 is the character "U2022"; the non-standard glyphs are     *)
(* named by their code points as well.                                     *)
(***************************************************************************)
EXTENDS Integers, Sequences, FiniteSets, TLC

VARIABLES
    matches,         \* the Match table: matches[i] is the row with id i
    rewrites_used,   \* User.resume_rewrites_used
    matches_used,    \* User.matches_used
    response,        \* the HTTP response in flight to the client (or none)
    requests         \* number of requests handled so far

vars == <<matches, rewrites_used, matches_used, response, requests>>

-----------------------------------------------------------------------------
(* Bounds of the model *)

MaxRequests == 2

\* Longest generated line and number of transform passes over one text.
MaxLineLen == 4

MaxPasses == 2

\* Most items in one batch.
MaxBatch == 2

LongWords == 13

-----------------------------------------------------------------------------
(* Numbers *)

\* n points, in hundredths of a point
Pts(n) == n * 100

Abs(x) == IF x < 0 THEN -x ELSE x

Min(a, b) == IF a <= b THEN a ELSE b

Max(a, b) == IF a >= b THEN a ELSE b

\* Python round(x, 1): the closest multiple of 0.1, a tie going to the even one.
Round1(x) ==
    LET lo == (x \div 10) * 10
        r == x - lo
    IN  IF r < 5 THEN lo
        ELSE IF r > 5 THEN lo + 10
        ELSE IF (lo \div 10) % 2 = 0 THEN lo ELSE lo + 10

\* A JSON value where the code expects a number: a number, a value that is
\* not a number (a string, null, a list), or a key that is absent.
JNum(v) == [ty |-> "num", v |-> v]

JNonNum == [ty |-> "nonnum", v |-> 0]

JAbsent == [ty |-> "absent", v |-> 0]

-----------------------------------------------------------------------------
(* Text *)

Whitespace == {" ", "\t"}

TableChars == {"|", "+", "-", "="}

BULLET == "U2022"

bullet_replacements ==
    {"U25CF", "U25AA", "U25C6", "U2605", "U2606", "U2192",
     "U25BA", "U25E6", "U2023", "U2043", "U25B8"}

EmptyText == << <<>> >>

\* '\n'.join(lines) seen again as a list of lines: joining no line at all
\* gives the empty string, whose only line is the empty line.
JoinLines(lines) == IF lines = <<>> THEN EmptyText ELSE lines

CountIn(line, chars) == Cardinality({i \in DOMAIN line : line[i] \in chars})

\* Number of leading whitespace characters of a line.
LeadingSpace(line) ==
    IF \A i \in DOMAIN line : line[i] \in Whitespace
    THEN Len(line)
    ELSE (CHOOSE i \in DOMAIN line :
              /\ line[i] \notin Whitespace
              /\ \A j \in 1..(i - 1) : line[j] \in Whitespace) - 1

\* not line.strip()
IsBlank(line) == \A i \in DOMAIN line : line[i] \in Whitespace

\* re.match(r'^[\s|+\-=]{4,}$', line)
IsBorder(line) ==
    /\ Len(line) >= 4
    /\ \A i \in DOMAIN line : line[i] \in (Whitespace \cup TableChars)

\* table_chars / max(len(line), 1) > 0.4
IsDense(line) == CountIn(line, TableChars) * 10 > 4 * Max(Len(line), 1)

\* Blank lines go through the table rules like any other line.
KeepLine_BlankNotExempt(line) ==
    /\ ~IsDense(line)
    /\ ~IsBorder(line)
    /\ ~(CountIn(line, {"|"}) >= 3)

KeepLine(line) ==
    \/ IsBlank(line)
    \/ /\ ~IsDense(line)
       /\ ~IsBorder(line)
       /\ ~(CountIn(line, {"|"}) >= 3)

\* A variant that stops after the first table line it removes.
remove_tables_first_only(text) ==
    IF \A i \in DOMAIN text : KeepLine(text[i]) THEN text
    ELSE LET k == CHOOSE i \in DOMAIN text :
                      /\ ~KeepLine(text[i])
                      /\ \A j \in 1..(i - 1) : KeepLine(text[j])
         IN  JoinLines(SubSeq(text, 1, k - 1) \o SubSeq(text, k + 1, Len(text)))

remove_tables_from_resume(text) == JoinLines(SelectSeq(text, KeepLine))

ReplaceGlyphs(line) ==
    [i \in DOMAIN line |-> IF line[i] \in bullet_replacements THEN BULLET ELSE line[i]]

\* re.match(r'^(\s*)[-*]\s+(.+)$', line): the indentation, a dash or a star,
\* at least one whitespace character and at least one more character.
IsListItem(line) ==
    LET n == LeadingSpace(line)
    IN  /\ Len(line) >= n + 3
        /\ line[n + 1] \in {"-", "*"}
        /\ line[n + 2] \in Whitespace

\* group(2): \s+ is greedy but leaves one character for .+
ListItemContent(line) ==
    LET n == LeadingSpace(line)
        rest == SubSeq(line, n + 2, Len(line))
        k == LeadingSpace(rest)
    IN  IF k = Len(rest) THEN SubSeq(rest, k, k) ELSE SubSeq(rest, k + 1, Len(rest))

\* A variant without the anchor at the start of the line: the first dash or
\* star followed by whitespace, wherever it stands, becomes the bullet.
NormalizeLine_Unanchored(line) ==
    LET at == {i \in 1..(Len(line) - 1) :
                  line[i] \in {"-", "*"} /\ line[i + 1] \in Whitespace}
    IN  IF at = {} THEN line
        ELSE LET k == CHOOSE i \in at : \A j \in at : i <= j
             IN  [i \in DOMAIN line |-> IF i = k THEN BULLET ELSE line[i]]

NormalizeLine(line) ==
    IF IsListItem(line)
    THEN SubSeq(line, 1, LeadingSpace(line)) \o <<BULLET, " ">> \o ListItemContent(line)
    ELSE line

normalize_bullets(text) ==
    [i \in DOMAIN text |-> NormalizeLine(ReplaceGlyphs(text[i]))]

\* content.split(): the maximal runs of non-whitespace characters.
RECURSIVE SplitWords(_)
SplitWords(s) ==
    LET k == LeadingSpace(s)
    IN  IF k = Len(s) THEN <<>>
        ELSE LET t == SubSeq(s, k + 1, Len(s))
                 e == IF \E i \in DOMAIN t : t[i] \in Whitespace
                      THEN (CHOOSE i \in DOMAIN t :
                                /\ t[i] \in Whitespace
                                /\ \A j \in 1..(i - 1) : t[j] \notin Whitespace) - 1
                      ELSE Len(t)
             IN  <<SubSeq(t, 1, e)>> \o SplitWords(SubSeq(t, e + 1, Len(t)))

\* re.match(r'^(\s*•\s*)', line): length of the bullet prefix, 0 if none.
BulletPrefix(line) ==
    LET n == LeadingSpace(line)
    IN  IF n < Len(line) /\ line[n + 1] = BULLET
        THEN n + 1 + LeadingSpace(SubSeq(line, n + 2, Len(line)))
        ELSE 0

Spaces(n) == [i \in 1..n |-> " "]

\* The word loop of fix_line_lengths: the lines emitted for `words`, starting
\* from the partial line `current_line`.
RECURSIVE WrapWords(_, _, _, _)
WrapWords(words, current_line, continuation_indent, max_length) ==
    IF words = <<>>
    THEN IF IsBlank(current_line) THEN <<>> ELSE <<current_line>>
    ELSE LET word == Head(words)
             test_line == current_line
                              \o (IF IsBlank(current_line) THEN <<>> ELSE <<" ">>)
                              \o word
         IN  IF Len(test_line) <= max_length
             THEN WrapWords(Tail(words), test_line, continuation_indent, max_length)
             ELSE (IF IsBlank(current_line) THEN <<>> ELSE <<current_line>>)
                      \o WrapWords(Tail(words), continuation_indent \o word,
                                   continuation_indent, max_length)

WrapLine(line, max_length) ==
    IF Len(line) <= max_length THEN <<line>>
    ELSE LET b == BulletPrefix(line)
             indent == SubSeq(line, 1, b)
             content == SubSeq(line, b + 1, Len(line))
             continuation_indent ==
                 IF b > 0 THEN Spaces(b)
                 ELSE SubSeq(line, 1, LeadingSpace(line)) \o <<" ", " ">>
         IN  WrapWords(SplitWords(content), indent, continuation_indent, max_length)

RECURSIVE WrapLines(_, _)
WrapLines(text, max_length) ==
    IF text = <<>> THEN <<>>
    ELSE WrapLine(Head(text), max_length) \o WrapLines(Tail(text), max_length)

fix_line_lengths(text, max_length) == JoinLines(WrapLines(text, max_length))

RewriteMaxLength == 100

\* The post-processing of ResumeRewriterV2.rewrite_resume: the three
\* transforms in order, each result kept only when it differs.
PostProcess(text) ==
    fix_line_lengths(normalize_bullets(remove_tables_from_resume(text)), RewriteMaxLength)

-----------------------------------------------------------------------------
(* The stored résumés and jobs (rows of the Resume and Job tables; no
   operation of the model changes them).  Id 0 names no row. *)

Resumes == {1}

Jobs == {1, 2}

LongLine ==
    [i \in 1..(8 * LongWords) |-> IF i % 8 = 0 THEN " " ELSE "a"]

OriginalText == << <<"c", "v">> >>

CleanText == << <<"c", "v", " ", "k">>, <<BULLET, " ", "x">> >>

\* A proposal the safety net has work on: a table row, a mapped glyph, a
\* dash list item, a contact line with one pipe and a line over the limit.
MessyText ==
    << <<"|", "a", "|", "b", "|">>,
       <<"U25CF", " ", "x">>,
       <<"-", " ", "y">>,
       <<"e", " ", "|", " ", "p">>,
       LongLine >>

ResumeRawText(r) == OriginalText

JobDescription(j) == << <<"j", "d">> >>

\* Job.requirements, NULL for job 2.
JobHasRequirements(j) == j = 1

JobRequirements(j) == << <<"r", "q">> >>

\* a + "\n\n" + b on texts: the last line of a and the first line of b are
\* separated by one empty line.
ConcatBlankLine(a, b) == a \o << <<>> >> \o b

\* f"{job.description}\n\n{job.requirements or ''}"
JobText(j) ==
    ConcatBlankLine(JobDescription(j),
                    IF JobHasRequirements(j) THEN JobRequirements(j) ELSE EmptyText)

-----------------------------------------------------------------------------
(* CategoricalMatchScorer: JobMatcher *)

Categories ==
    {"skills_match", "experience_relevance", "keyword_optimization",
     "achievements", "education"}

\* The category caps of the scoring contract, in points.
Cap(c) ==
    CASE c = "skills_match" -> 40
      [] c = "experience_relevance" -> 30
      [] c = "keyword_optimization" -> 15
      [] c = "achievements" -> 10
      [] c = "education" -> 5

RECURSIVE SumOver(_, _)
SumOver(f, S) ==
    IF S = {} THEN 0
    ELSE LET c == CHOOSE x \in S : TRUE IN f[c] + SumOver(f, S \ {c})

NoBreakdown == [c \in Categories |-> 0]

\* A generation response text is a sequence of parts: code-fence markers
\* (``` alone, or ```json) and the chunks of text between them.  The body of
\* a chunk is what json.loads makes of it:
\*   "malformed": not JSON (JSONDecodeError); `text` is the chunk's text;
\*   "nonobject": JSON, but a list, a string, a number or null;
\*   "object":    a JSON object with the fields of the body.
Fence(lang) == [k |-> "fence", lang |-> lang]

Chunk(body) == [k |-> "chunk", lang |-> "", body |-> body]

MinOf(S) == CHOOSE x \in S : \A y \in S : x <= y

Fences(parts) == {i \in DOMAIN parts : parts[i].k = "fence"}

JsonFences(parts) == {i \in Fences(parts) : parts[i].lang = "json"}

\* s.split("```")[0]
UpToFence(parts) ==
    IF Fences(parts) = {} THEN parts ELSE SubSeq(parts, 1, MinOf(Fences(parts)) - 1)

\* s.split(marker)[1], for the marker at position i
AfterPart(parts, i) == SubSeq(parts, i + 1, Len(parts))

\* The code-fence step of _parse_response: what follows the first ```json
\* up to the next fence; without ```json what follows the first ``` up to
\* the next fence; without any fence the whole text.
StripFence(content) ==
    IF JsonFences(content) # {}
    THEN UpToFence(AfterPart(content, MinOf(JsonFences(content))))
    ELSE IF Fences(content) # {}
    THEN UpToFence(AfterPart(content, MinOf(Fences(content))))
    ELSE content

JsonText == << <<"{", "}">> >>

ProseText == << <<"s", "o", "r", "r", "y">> >>

\* The text of fence-free parts (the content kept by the except branch).
RawText(parts) == IF parts = <<>> THEN EmptyText ELSE parts[1].body.text

\* json.loads(content.strip()) succeeds on exactly one chunk of JSON.
IsJson(parts) ==
    /\ Len(parts) = 1
    /\ parts[1].k = "chunk"
    /\ parts[1].body.ty # "malformed"

MatcherBody(ty, text, score, has_bd, bd, skills) ==
    [ty |-> ty, text |-> text, match_score |-> score,
     has_breakdown |-> has_bd, score_breakdown |-> bd, missing_skills |-> skills]

\* What JobMatcher.match returns (outcome "returned") or that it raised.
\* `request` is the (resume_text, job_description) pair put in the prompt.
MatchRaised(resume_text, job_description) ==
    [outcome |-> "raised", parse_error |-> FALSE, raw_response |-> EmptyText,
     match_score |-> JAbsent, has_breakdown |-> FALSE,
     score_breakdown |-> NoBreakdown, missing_skills |-> "none",
     request |-> [resume_text |-> resume_text, job_description |-> job_description]]

\* JobMatcher._parse_response
MatcherParseResponse(content) ==
    LET parts == StripFence(content)
        body == parts[1].body
    IN  IF ~IsJson(parts)
        THEN [kind |-> "dict", parse_error |-> TRUE, raw_response |-> RawText(parts),
              match_score |-> JAbsent, has_breakdown |-> FALSE,
              score_breakdown |-> NoBreakdown, missing_skills |-> "none"]
        ELSE IF body.ty = "nonobject"
        THEN [kind |-> "nondict", parse_error |-> FALSE, raw_response |-> EmptyText,
              match_score |-> JAbsent, has_breakdown |-> FALSE,
              score_breakdown |-> NoBreakdown, missing_skills |-> "none"]
        ELSE [kind |-> "dict", parse_error |-> FALSE, raw_response |-> EmptyText,
              match_score |-> body.match_score, has_breakdown |-> body.has_breakdown,
              score_breakdown |-> body.score_breakdown,
              missing_skills |-> body.missing_skills]

\* max(0, min(100, match_data["match_score"]))
ClampMatchScore(x) == Max(0, Min(Pts(100), x))

\* JobMatcher.match. gen.ok is FALSE when llm_client.generate raises (a
\* timeout, a transport or backend error); gen.content is the response text.
\* Storing the ATS fields on a parsed value that is not a dict raises
\* TypeError inside the ATS try block and again in its handler; clamping a
\* match_score that is not a number raises TypeError: both reach `raise`.
JobMatcherMatch(resume_text, job_description, gen) ==
    LET data == MatcherParseResponse(gen.content)
    IN  IF ~gen.ok THEN MatchRaised(resume_text, job_description)
        ELSE IF data.kind # "dict" THEN MatchRaised(resume_text, job_description)
        ELSE IF data.match_score.ty = "nonnum"
        THEN MatchRaised(resume_text, job_description)
        ELSE [outcome |-> "returned",
              parse_error |-> data.parse_error,
              raw_response |-> data.raw_response,
              match_score |->
                  IF data.match_score.ty = "num"
                  THEN JNum(ClampMatchScore(data.match_score.v))
                  ELSE JAbsent,
              has_breakdown |-> data.has_breakdown,
              score_breakdown |-> data.score_breakdown,
              missing_skills |-> data.missing_skills,
              request |-> [resume_text |-> resume_text,
                           job_description |-> job_description]]

\* dict.get("match_score", default) on a result of JobMatcher.match
GetMatchScore(result, default) ==
    IF result.match_score.ty = "num" THEN result.match_score.v ELSE default

-----------------------------------------------------------------------------
(* ImprovementPlanner: ResumeRewriterV2 *)

Change(orig, proj, imp) ==
    [original_points |-> orig, projected_points |-> proj, improvement |-> imp]

NoChanges == [c \in Categories |-> Change(0, 0, 0)]

PlannerBody(ty, text, resume, projected, improvement, has_ch, ch, warnings, blockers) ==
    [ty |-> ty, text |-> text, improved_resume |-> resume,
     projected |-> projected, improvement |-> improvement,
     has_changes |-> has_ch, match_score_changes |-> ch,
     warnings |-> warnings, blockers |-> blockers]

\* The improved_resume value of a planner object: a string (its text), a
\* JSON object, another non-string value, or absent.
ResumeStr(text) == [ty |-> "str", text |-> text]

ResumeDict == [ty |-> "dict", text |-> EmptyText]

ResumeOther == [ty |-> "other", text |-> << <<"4", "2">> >>]

ResumeAbsent == [ty |-> "absent", text |-> EmptyText]

\* "ERROR: LLM returned invalid format. Please try again."
InvalidFormatText == << <<"E", "R", "R", "O", "R", ":", " ", "f", "o", "r", "m", "a", "t">> >>

\* "ERROR: Resume text not found in response. Please try again."
NotFoundText == << <<"E", "R", "R", "O", "R", ":", " ", "n", "o", "t", " ", "f", "o", "u", "n", "d">> >>

PlannerData(kind, parse_error, text, body) ==
    [kind |-> kind, parse_error |-> parse_error, improved_resume |-> text,
     projected |-> body.projected, improvement |-> body.improvement,
     has_changes |-> body.has_changes,
     match_score_changes |-> body.match_score_changes,
     warnings |-> body.warnings, blockers |-> body.blockers]

\* The fields of a dict that holds only improved_resume and parse_error.
BareBody ==
    PlannerBody("object", EmptyText, ResumeAbsent, JAbsent, JAbsent, FALSE,
                NoChanges, <<>>, <<>>)

\* ResumeRewriterV2._parse_response
PlannerParseResponse(content) ==
    LET parts == StripFence(content)
        body == parts[1].body
    IN  IF ~IsJson(parts)
        THEN PlannerData("dict", TRUE, RawText(parts), BareBody)
        ELSE IF body.ty = "nonobject"
        THEN PlannerData("nondict", FALSE, EmptyText, BareBody)
        ELSE IF body.improved_resume.ty = "dict"
        THEN PlannerData("dict", TRUE, InvalidFormatText, BareBody)
        ELSE IF body.improved_resume.ty = "other"
        THEN PlannerData("dict", TRUE, body.improved_resume.text, BareBody)
        ELSE IF body.improved_resume.ty = "absent"
        THEN PlannerData("dict", TRUE, NotFoundText, body)
        ELSE PlannerData("dict", FALSE, body.improved_resume.text, body)

\* The score_breakdown argument of the planner: None, or a dict that gives
\* each category its {"points": n}.
NoScoreBreakdown == [given |-> FALSE, points |-> NoBreakdown]

ScoreBreakdownOf(points) == [given |-> TRUE, points |-> points]

\* "Extract category scores and calculate headroom": the points of each
\* category (0 without a breakdown) taken from 40/30/15/10/5.
Headroom(score_breakdown) ==
    LET points == IF score_breakdown.given THEN score_breakdown.points ELSE NoBreakdown
    IN  [c \in Categories |-> Pts(Cap(c)) - points[c]]

PlanRequest(resume_text, job_description, match_score, score_breakdown) ==
    [resume_text |-> resume_text, job_description |-> job_description,
     match_score |-> match_score, headroom |-> Headroom(score_breakdown)]

PlanRaised(req) ==
    [outcome |-> "raised", request |-> req, proposed_text |-> EmptyText]
        @@ PlannerData("dict", FALSE, EmptyText, BareBody)

\* ResumeRewriterV2.rewrite_resume.  A parsed value that is not a dict makes
\* _parse_response raise TypeError, which is not caught there.  `request` is
\* what the prompt was built from and `proposed_text` the improved_resume as
\* parsed, before the post-processing (the local original_resume).
RewriterRewriteResume(resume_text, job_description, match_score, score_breakdown, gen) ==
    LET req == PlanRequest(resume_text, job_description, match_score, score_breakdown)
        data == PlannerParseResponse(gen.content)
    IN  IF ~gen.ok \/ data.kind # "dict" THEN PlanRaised(req)
        ELSE [outcome |-> "returned", request |-> req,
              proposed_text |-> data.improved_resume]
                 @@ [data EXCEPT !.improved_resume = PostProcess(@)]

-----------------------------------------------------------------------------
(* ValidationReconciler: the rewrite endpoint *)

\* The thresholds applied to the gap as it is reported, rounded to one decimal.
GenerateValidationMessage_RoundedGap(estimated, actual, gap, actual_improvement) ==
    IF Round1(gap) <= Pts(3) THEN "estimate accurate"
    ELSE IF Round1(gap) <= Pts(5) THEN "mostly accurate"
    ELSE IF Round1(gap) <= Pts(10)
    THEN (IF actual_improvement > 0 THEN "improved less than estimated"
          ELSE "unchanged - already optimized")
    ELSE (IF actual_improvement > 0 THEN "estimate optimistic"
          ELSE "no material gain")

\* One message for every improved score whose gap is above 5.
GenerateValidationMessage_OneImproved(estimated, actual, gap, actual_improvement) ==
    IF gap <= Pts(3) THEN "estimate accurate"
    ELSE IF gap <= Pts(5) THEN "mostly accurate"
    ELSE IF actual_improvement > 0 THEN "improved less than estimated"
    ELSE IF gap <= Pts(10) THEN "unchanged - already optimized"
    ELSE "no material gain"

\* The message class chosen by _generate_validation_message.
GenerateValidationMessage(estimated, actual, gap, actual_improvement) ==
    IF gap <= Pts(3) THEN "estimate accurate"
    ELSE IF gap <= Pts(5) THEN "mostly accurate"
    ELSE IF gap <= Pts(10)
    THEN (IF actual_improvement > 0 THEN "improved less than estimated"
          ELSE "unchanged - already optimized")
    ELSE (IF actual_improvement > 0 THEN "estimate optimistic"
          ELSE "no material gain")

CeilingReached_Strict(actual_improvement) == actual_improvement < Pts(2)

\* if actual_improvement <= 2
CeilingReached(actual_improvement) == actual_improvement <= Pts(2)

Reliable_FromRounded(accuracy_gap) == Round1(accuracy_gap) <= Pts(5)

\* "reliable": accuracy_gap <= 5
Reliable(accuracy_gap) == accuracy_gap <= Pts(5)

\* "accuracy_gap": round(accuracy_gap, 1)
ReportedGap(accuracy_gap) == Round1(accuracy_gap)

CeilingReasons(result, actual_improvement) ==
    LET given == result.blockers \o result.warnings
    IN  IF given # <<>> THEN given
        ELSE IF actual_improvement > 0 THEN <<"skills already saturated">>
        ELSE <<"already well-optimized">>

NoValidation == [present |-> FALSE]

\* result.get("final_scores", {}).get("match_score", {}).get("projected", match_score)
EstimatedScore(result, match_score) ==
    IF result.projected.ty = "absent" THEN JNum(match_score) ELSE result.projected

\* The POST-RESCAN VALIDATION block of rewrite_resume: the validation data
\* (none when the block is skipped or raises) with the ceiling flag and
\* reasons it leaves behind, and the rescan it ran (`rescanned`, `rescan`).
PostRescanValidation(result, job_description, match_score, rgen) ==
    LET text == result.improved_resume
        rescan == JobMatcherMatch(text, job_description, rgen)
        actual_new_score == GetMatchScore(rescan, match_score)
        estimated == EstimatedScore(result, match_score)
        accuracy_gap == Abs(estimated.v - actual_new_score)
        actual_improvement == actual_new_score - match_score
        ceiling == CeilingReached(actual_improvement)
        reasons == IF ceiling THEN CeilingReasons(result, actual_improvement) ELSE <<>>
        skipped == [validation |-> NoValidation, ceiling_reached |-> FALSE,
                    ceiling_reasons |-> <<>>]
    IN  IF text = EmptyText
        THEN skipped @@ [rescanned |-> FALSE]
        ELSE IF rescan.outcome = "raised" \/ estimated.ty # "num"
        THEN skipped @@ [rescanned |-> TRUE, rescan |-> rescan]
        ELSE [rescanned |-> TRUE, rescan |-> rescan,
              ceiling_reached |-> ceiling,
              ceiling_reasons |-> reasons,
              validation |->
                  [present |-> TRUE,
                   estimated_score |-> estimated.v,
                   actual_score |-> actual_new_score,
                   estimated_improvement |-> estimated.v - match_score,
                   actual_improvement |-> actual_improvement,
                   accuracy_gap |-> ReportedGap(accuracy_gap),
                   reliable |-> Reliable(accuracy_gap),
                   ceiling_reached |-> ceiling,
                   ceiling_reasons |-> reasons,
                   validation_message |->
                       GenerateValidationMessage(estimated.v, actual_new_score,
                                                 accuracy_gap, actual_improvement)]]

\* final_score: the validated score if available, otherwise the estimate.
FinalScore(result, v, match_score) ==
    IF v.validation.present THEN JNum(v.validation.actual_score)
    ELSE IF result.projected.ty = "absent" THEN JNum(match_score)
    ELSE result.projected

FinalImprovement(result, v) ==
    IF v.validation.present THEN JNum(v.validation.actual_improvement)
    ELSE IF result.improvement.ty = "absent" THEN JNum(0)
    ELSE result.improvement

\* response_data of rewrite_resume
ResponseData(resume_id, job_id, m, match_score, result, v) ==
    [present |-> TRUE,
     resume_id |-> resume_id,
     job_id |-> job_id,
     match_id |-> m,
     original_score |-> match_score,
     improved_resume |-> result.improved_resume,
     estimated_new_score |-> FinalScore(result, v, match_score),
     score_improvement |-> FinalImprovement(result, v),
     warnings |-> result.warnings,
     blockers |-> result.blockers,
     ceiling_reached |-> v.ceiling_reached,
     ceiling_reasons |-> IF v.ceiling_reached THEN v.ceiling_reasons ELSE <<>>,
     validation |-> v.validation,
     raw_response |-> result,
     rescanned |-> v.rescanned,
     rescan |-> IF v.rescanned THEN v.rescan ELSE MatchRaised(EmptyText, EmptyText)]

-----------------------------------------------------------------------------
(* What the external generation backend may answer *)

BreakdownOf(skills, experience, keyword, achievements, education) ==
    [c \in Categories |->
        CASE c = "skills_match" -> Pts(skills)
          [] c = "experience_relevance" -> Pts(experience)
          [] c = "keyword_optimization" -> Pts(keyword)
          [] c = "achievements" -> Pts(achievements)
          [] c = "education" -> Pts(education)]

\* Breakdowns a generator may send: within the caps, and above them.
GenBreakdowns == {BreakdownOf(20, 15, 8, 5, 2), BreakdownOf(44, 30, 15, 10, 5)}

GenScores == {Pts(-5), Pts(50), Pts(51), Pts(53), Pts(120)}

Gen(ok, content) == [ok |-> ok, content |-> content]

Bare(body) == <<Chunk(body)>>

ProseChunk == Chunk(MatcherBody("malformed", ProseText, JAbsent, FALSE, NoBreakdown, "none"))

FencedJson(body) == <<ProseChunk, Fence("json"), Chunk(body), Fence("")>>

FencedPlain(body) == <<Fence(""), Chunk(body), Fence("")>>

MatcherObject(score, has_bd, bd) ==
    MatcherBody("object", JsonText, score, has_bd, bd, "skills")

MatcherMalformed == MatcherBody("malformed", ProseText, JAbsent, FALSE, NoBreakdown, "none")

MatcherNonObject == MatcherBody("nonobject", JsonText, JAbsent, FALSE, NoBreakdown, "none")

\* The answers to a scoring prompt used by the request flow.
MatcherGens ==
    {Gen(FALSE, Bare(MatcherMalformed)),
     Gen(TRUE, Bare(MatcherMalformed)),
     Gen(TRUE, FencedJson(MatcherNonObject)),
     Gen(TRUE, FencedPlain(MatcherObject(JNonNum, FALSE, NoBreakdown))),
     Gen(TRUE, Bare(MatcherObject(JAbsent, FALSE, NoBreakdown)))}
    \cup {Gen(TRUE, FencedJson(MatcherObject(JNum(sc), TRUE, BreakdownOf(20, 15, 8, 5, 2)))) :
              sc \in GenScores}

ChangesOf(skills_from, skills_to) ==
    [c \in Categories |->
        IF c = "skills_match"
        THEN Change(Pts(skills_from), Pts(skills_to), Pts(skills_to - skills_from))
        ELSE Change(0, 0, 0)]

PlannerObject(resume, projected, improvement, ch, warnings, blockers) ==
    PlannerBody("object", JsonText, resume, projected, improvement, TRUE, ch,
                warnings, blockers)

PlannerMalformed ==
    PlannerBody("malformed", ProseText, ResumeAbsent, JAbsent, JAbsent, FALSE,
                NoChanges, <<>>, <<>>)

PlannerNonObject ==
    PlannerBody("nonobject", JsonText, ResumeAbsent, JAbsent, JAbsent, FALSE,
                NoChanges, <<>>, <<>>)

\* The answers to a rewrite prompt used by the request flow.
PlannerGens ==
    {Gen(FALSE, Bare(PlannerMalformed)),
     Gen(TRUE, Bare(PlannerMalformed)),
     Gen(TRUE, FencedJson(PlannerNonObject)),
     Gen(TRUE, FencedJson(PlannerObject(ResumeAbsent, JNum(Pts(62)), JNum(Pts(12)),
                                        ChangesOf(38, 40), <<>>, <<>>))),
     Gen(TRUE, FencedJson(PlannerObject(ResumeDict, JNum(Pts(62)), JNum(Pts(12)),
                                        ChangesOf(38, 40), <<>>, <<>>))),
     Gen(TRUE, FencedJson(PlannerObject(ResumeOther, JNum(Pts(62)), JNum(Pts(12)),
                                        ChangesOf(38, 40), <<>>, <<>>))),
     Gen(TRUE, FencedJson(PlannerObject(ResumeStr(CleanText), JNum(Pts(55) + 4),
                                        JNum(Pts(5) + 4), ChangesOf(38, 40), <<>>, <<>>))),
     Gen(TRUE, FencedJson(PlannerObject(ResumeStr(CleanText), JNum(Pts(62)),
                                        JNum(Pts(12)), ChangesOf(38, 44), <<>>, <<>>))),
     Gen(TRUE, FencedPlain(PlannerObject(ResumeStr(MessyText), JNum(Pts(62)),
                                         JNum(Pts(12)), ChangesOf(38, 40),
                                         <<"education at ceiling">>, <<"years gap">>))),
     Gen(TRUE, Bare(PlannerObject(ResumeStr(EmptyText), JNum(Pts(62)), JNum(Pts(12)),
                                  ChangesOf(38, 40), <<>>, <<>>))),
     Gen(TRUE, Bare(PlannerObject(ResumeStr(CleanText), JNonNum, JNonNum,
                                  ChangesOf(38, 40), <<>>, <<>>))),
     Gen(TRUE, Bare(PlannerObject(ResumeStr(CleanText), JAbsent, JAbsent,
                                  ChangesOf(38, 40), <<>>, <<>>)))}

-----------------------------------------------------------------------------
(* The request flow *)

\* RESUME_REWRITE_LIMITS["free"]; the user is on the free plan, not an admin.
RewriteLimitFree == 3

\* PLAN_LIMITS["free"]
MatchLimitFree == 10

\* match_score when the request has no match
DefaultMatchScore == 50

NoData == [present |-> FALSE]

NoResponse == [op |-> "none", status |-> 0]

Init ==
    /\ matches = <<>>
    /\ rewrites_used = 0
    /\ matches_used = 0
    /\ response = NoResponse
    /\ requests = 0

\* The row create_match stores from a result of JobMatcher.match.
\* `scored` is the generation request whose answer the row's score came from
\* and `breakdown` the score_breakdown of that answer; the Match table has a
\* column for neither, they are kept to say what a row was computed from.
MatchRow(resume_id, job_id, result) ==
    [resume_id |-> resume_id,
     job_id |-> job_id,
     match_score |-> GetMatchScore(result, 0),
     missing_skills |-> result.missing_skills,
     improved_resume_data |-> NoData,
     scored |-> result.request,
     breakdown |-> IF result.has_breakdown THEN ScoreBreakdownOf(result.score_breakdown)
                   ELSE NoScoreBreakdown]

\* POST /matches
create_match(resume_id, job_id, gen) ==
    LET result == JobMatcherMatch(ResumeRawText(resume_id), JobText(job_id), gen)
        reply(st) == [op |-> "create_match", status |-> st]
    IN  /\ requests' = requests + 1
        /\ IF matches_used >= MatchLimitFree
           THEN /\ response' = reply(403)
                /\ UNCHANGED <<matches, matches_used, rewrites_used>>
           ELSE IF resume_id \notin Resumes \/ job_id \notin Jobs
           THEN /\ response' = reply(404)
                /\ UNCHANGED <<matches, matches_used, rewrites_used>>
           ELSE IF result.outcome = "raised"
           THEN /\ response' = reply(500) @@ [match_result |-> result]
                /\ UNCHANGED <<matches, matches_used, rewrites_used>>
           ELSE /\ matches' = Append(matches, MatchRow(resume_id, job_id, result))
                /\ matches_used' = matches_used + 1
                /\ response' = reply(200) @@
                       [match_id |-> Len(matches) + 1, match_result |-> result]
                /\ UNCHANGED rewrites_used

\* The match a rewrite request works on (0: none): the row match_id when
\* given, else the most recent row of the résumé and job.
FindMatch(resume_id, job_id, match_id) ==
    LET mine == {i \in DOMAIN matches :
                    matches[i].resume_id = resume_id /\ matches[i].job_id = job_id}
    IN  IF match_id # 0
        THEN (IF match_id \in DOMAIN matches THEN match_id ELSE 0)
        ELSE IF mine = {} THEN 0
        ELSE CHOOSE i \in mine : \A j \in mine : j <= i

\* The score_breakdown the rewrite endpoint hands to the planner: none
\* without a match, and {"points": 0} for every category with one.
EndpointScoreBreakdown(m) ==
    IF m # 0 THEN ScoreBreakdownOf([c \in Categories |-> 0]) ELSE NoScoreBreakdown

\* POST /resumes/{resume_id}/rewrite
rewrite_resume(resume_id, job_id, match_id, regenerate, pgen, rgen) ==
    LET m == FindMatch(resume_id, job_id, match_id)
        match_score == IF m # 0 THEN matches[m].match_score ELSE Pts(DefaultMatchScore)
        result == RewriterRewriteResume(ResumeRawText(resume_id), JobDescription(job_id),
                                        match_score, EndpointScoreBreakdown(m), pgen)
        v == PostRescanValidation(result, JobDescription(job_id), match_score, rgen)
        response_data == ResponseData(resume_id, job_id, m, match_score, result, v)
        reply(st, cached) == [op |-> "rewrite", status |-> st, cached |-> cached,
                              by_match_id |-> match_id # 0]
    IN  /\ requests' = requests + 1
        /\ UNCHANGED matches_used
        /\ IF resume_id \notin Resumes \/ job_id \notin Jobs
           THEN /\ response' = reply(404, FALSE)
                /\ UNCHANGED <<matches, rewrites_used>>
           ELSE IF m # 0 /\ matches[m].improved_resume_data.present /\ ~regenerate
           THEN /\ response' = reply(200, TRUE) @@ [body |-> matches[m].improved_resume_data]
                /\ UNCHANGED <<matches, rewrites_used>>
           ELSE IF rewrites_used >= RewriteLimitFree
           THEN /\ response' = reply(403, FALSE)
                /\ UNCHANGED <<matches, rewrites_used>>
           ELSE IF result.outcome = "raised"
           THEN /\ response' = reply(500, FALSE)
                /\ UNCHANGED <<matches, rewrites_used>>
           ELSE /\ response' = reply(200, FALSE) @@ [body |-> response_data]
                /\ matches' = IF m # 0
                              THEN [matches EXCEPT ![m].improved_resume_data = response_data]
                              ELSE matches
                /\ rewrites_used' = rewrites_used + 1

\* Requests that name a resume or a job that does not exist.
UnknownIds == {<<0, 1>>, <<1, 0>>}

AnyMatcherGen == CHOOSE g \in MatcherGens : TRUE

AnyPlannerGen == CHOOSE g \in PlannerGens : TRUE

CreateMatchRequest ==
    /\ requests < MaxRequests
    /\ \E resume_id \in Resumes, job_id \in Jobs, gen \in MatcherGens :
           create_match(resume_id, job_id, gen)

RewriteRequest ==
    /\ requests < MaxRequests
    /\ \E resume_id \in Resumes, job_id \in Jobs,
          match_id \in 0..(Len(matches) + 1), regenerate \in BOOLEAN,
          pgen \in PlannerGens, rgen \in MatcherGens :
           rewrite_resume(resume_id, job_id, match_id, regenerate, pgen, rgen)

UnknownIdRequest ==
    /\ requests < MaxRequests
    /\ \E ids \in UnknownIds :
           \/ create_match(ids[1], ids[2], AnyMatcherGen)
           \/ rewrite_resume(ids[1], ids[2], 0, FALSE, AnyPlannerGen, AnyMatcherGen)

Next ==
    \/ CreateMatchRequest
    \/ RewriteRequest
    \/ UnknownIdRequest

Spec == Init /\ [][Next]_vars

-----------------------------------------------------------------------------
(* JobMatcher.match on its own: every answer of the backend, one call *)

RichScores == GenScores \cup {0, Pts(100), Pts(104)}

RichMatcherBodies ==
    {MatcherMalformed, MatcherNonObject,
     MatcherObject(JNonNum, FALSE, NoBreakdown),
     MatcherObject(JAbsent, FALSE, NoBreakdown)}
    \cup {MatcherObject(JNum(sc), FALSE, NoBreakdown) : sc \in RichScores}
    \cup {MatcherObject(JNum(sc), TRUE, bd) : sc \in RichScores, bd \in GenBreakdowns}

\* Two fenced blocks, the second one tagged json: the tagged one is taken.
TwoBlocks(body) ==
    <<Fence(""), ProseChunk, Fence(""), Fence("json"), Chunk(body), Fence("")>>

RichMatcherGens ==
    {Gen(ok, content) :
        ok \in BOOLEAN,
        content \in UNION {{Bare(b), FencedJson(b), FencedPlain(b), TwoBlocks(b)} :
                              b \in RichMatcherBodies}}

MatchInit ==
    /\ matches = <<>>
    /\ rewrites_used = 0
    /\ matches_used = 0
    /\ requests = 0
    /\ response \in {[op |-> "match_call", status |-> 0, gen |-> g,
                      resume_text |-> t, job_id |-> j] :
                        g \in RichMatcherGens, t \in {OriginalText, CleanText}, j \in Jobs}

\* One call of JobMatcher.match with the drawn arguments.
MatchCall ==
    /\ response.op = "match_call"
    /\ response' = [op |-> "match_done", status |-> 0, gen |-> response.gen,
                    match_result |->
                        JobMatcherMatch(response.resume_text, JobText(response.job_id),
                                        response.gen)]
    /\ requests' = requests + 1
    /\ UNCHANGED <<matches, rewrites_used, matches_used>>

SpecMatch == MatchInit /\ [][MatchCall]_vars

-----------------------------------------------------------------------------
(* One rewrite request on every Match table a first request can leave *)

EstimateSamples == {Pts(55), Pts(55) + 5, Pts(55) + 6}

RichPlannerGens ==
    PlannerGens \cup
    {Gen(TRUE, FencedJson(PlannerObject(ResumeStr(CleanText), JNum(e), JNum(e - Pts(50)),
                                        ChangesOf(38, 40), <<>>, <<>>))) :
         e \in EstimateSamples}

StoredRows ==
    {MatchRow(r, j, JobMatcherMatch(ResumeRawText(r), JobText(j), g)) :
         r \in Resumes, j \in Jobs,
         g \in {x \in MatcherGens :
                   JobMatcherMatch(OriginalText, EmptyText, x).outcome = "returned"}}

RewriteInit ==
    /\ matches \in {<<>>} \cup {<<row>> : row \in StoredRows}
    /\ rewrites_used \in {0, RewriteLimitFree}
    /\ matches_used = Len(matches)
    /\ response = NoResponse
    /\ requests = 0

RewriteOnce ==
    /\ requests = 0
    /\ \E resume_id \in Resumes, job_id \in Jobs,
          match_id \in 0..Len(matches), regenerate \in BOOLEAN,
          pgen \in RichPlannerGens, rgen \in MatcherGens :
           rewrite_resume(resume_id, job_id, match_id, regenerate, pgen, rgen)

SpecRewrite == RewriteInit /\ [][RewriteOnce]_vars

-----------------------------------------------------------------------------
(* The three text transforms on their own: any text, any order of passes *)

LineAlphabet == {" ", "-", "|", "a", "U25CF"}

ShortLines == UNION {[1..n -> LineAlphabet] : n \in 0..MaxLineLen}

Rep(c, n) == [i \in 1..n |-> c]

\* One word longer than the limit of the rewrite pipeline.
UnbreakableText == << Rep("a", RewriteMaxLength + 1) >>

\* A line over the limit whose last words are a dash and a letter.
DashTailText ==
    << Rep("a", RewriteMaxLength - 1) \o <<" ", "-", " ", "b">> >>

\* A line over the limit whose last words are dashes only.
DashesTailText ==
    << Rep("a", RewriteMaxLength - 1) \o <<" ", "-", "-", " ", "-", "-">> >>

\* A table of two rows under a ruled border, followed by a line of prose.
TableText ==
    << <<"|", "a", "|", "b", "|">>,
       <<"+", "-", "-", "+">>,
       <<"|", "c", "|", "d", "|">>,
       <<"x", " ", "y">> >>

\* "Email: a@b.com | Phone: 555-1234"
ContactLine ==
    <<"E", "m", "a", "i", "l", ":", " ", "a", "@", "b", ".", "c", "o", "m", " ", "|", " ",
      "P", "h", "o", "n", "e", ":", " ", "5", "5", "5", "-", "1", "2", "3", "4">>

\* A row of nine cells between ten pipes.
NineCellRow == [i \in 1..19 |-> IF i % 2 = 1 THEN "|" ELSE "a"]

\* A table row, the contact line, a blank line, a short line that is half
\* pipe, a line of prose.
ContactText ==
    <<NineCellRow, ContactLine, <<" ", " ">>, <<"|", "a">>, <<"x", " ", "y">>>>

\* "| x |": two pipes in five characters.
TwoPipeText == << <<"|", " ", "x", " ", "|">> >>

\* A list item under a black square (U+25A0).
SquareBulletText == << <<"U25A0", " ", "y">> >>

TransformTexts ==
    {<<l>> : l \in ShortLines}
    \cup {OriginalText, CleanText, MessyText, TableText, EmptyText, <<LongLine>>,
          UnbreakableText, DashTailText, DashesTailText, ContactText,
          TwoPipeText, SquareBulletText}

WrapLengths == {2, 3, RewriteMaxLength}

Transform(name, max_length) == [max_length |-> max_length, name |-> name]

NoTransform == Transform("none", 0)

Transforms ==
    {Transform("remove_tables_from_resume", 0), Transform("normalize_bullets", 0),
     Transform("post_process", RewriteMaxLength)}
    \cup {Transform("fix_line_lengths", n) : n \in WrapLengths}

ApplyTransform(t, text) ==
    CASE t.name = "remove_tables_from_resume" -> remove_tables_from_resume(text)
      [] t.name = "normalize_bullets" -> normalize_bullets(text)
      [] t.name = "fix_line_lengths" -> fix_line_lengths(text, t.max_length)
      [] t.name = "post_process" -> PostProcess(text)

TransformInit ==
    /\ matches = <<>>
    /\ rewrites_used = 0
    /\ matches_used = 0
    /\ requests = 0
    /\ response \in {[op |-> "text", transform |-> NoTransform, previous |-> NoTransform,
                      original |-> x, before |-> x, text |-> x] : x \in TransformTexts}

\* One pass of transform t over the current text.
Pass(t) ==
    /\ requests < MaxPasses
    /\ requests' = requests + 1
    /\ response' = [op |-> "text", transform |-> t, previous |-> response.transform,
                    original |-> response.original, before |-> response.text,
                    text |-> ApplyTransform(t, response.text)]
    /\ UNCHANGED <<matches, rewrites_used, matches_used>>

TableStripPass == Pass(Transform("remove_tables_from_resume", 0))

BulletNormalizerPass == Pass(Transform("normalize_bullets", 0))

LineWrapperPass == \E n \in WrapLengths : Pass(Transform("fix_line_lengths", n))

PipelinePass == Pass(Transform("post_process", RewriteMaxLength))

TransformNext ==
    \/ TableStripPass
    \/ BulletNormalizerPass
    \/ LineWrapperPass
    \/ PipelinePass

SpecTransform == TransformInit /\ [][TransformNext]_vars

-----------------------------------------------------------------------------
(* ATSAnalyzer: the text as one string *)

NEWLINE == "\n"

\* '\n'.join(lines): the text as one sequence of characters.
RECURSIVE Flatten(_)
Flatten(text) ==
    IF Len(text) = 1 THEN text[1]
    ELSE text[1] \o <<NEWLINE>> \o Flatten(Tail(text))

UpperLetters ==
    <<"A", "B", "C", "D", "E", "F", "G", "H", "I", "J", "K", "L", "M",
      "N", "O", "P", "Q", "R", "S", "T", "U", "V", "W", "X", "Y", "Z">>

LowerLetters ==
    <<"a", "b", "c", "d", "e", "f", "g", "h", "i", "j", "k", "l", "m",
      "n", "o", "p", "q", "r", "s", "t", "u", "v", "w", "x", "y", "z">>

Range(f) == {f[i] : i \in DOMAIN f}

IsUpper(c) == c \in Range(UpperLetters)

IsLower(c) == c \in Range(LowerLetters)

IsDigit(c) == c \in {"0", "1", "2", "3", "4", "5", "6", "7", "8", "9"}

\* \w
IsWordChar(c) == IsUpper(c) \/ IsLower(c) \/ IsDigit(c) \/ c = "_"

\* \s
IsSpace(c) == c \in Whitespace \cup {NEWLINE}

LowerChar(c) ==
    IF IsUpper(c)
    THEN LowerLetters[CHOOSE i \in DOMAIN UpperLetters : UpperLetters[i] = c]
    ELSE c

\* str.lower()
Lower(s) == [i \in DOMAIN s |-> LowerChar(s[i])]

\* needle in haystack
Contains(haystack, needle) ==
    \E i \in 1..(Len(haystack) - Len(needle) + 1) :
        SubSeq(haystack, i, i + Len(needle) - 1) = needle

\* The elements of a set of numbers in increasing order.
Sorted(S) ==
    LET rank == [x \in S |-> Cardinality({y \in S : y < x})]
    IN  [k \in 1..Cardinality(S) |-> CHOOSE x \in S : rank[x] = k - 1]

\* The maximal runs of word characters of s, in order, each with the
\* characters that separate it from the run before: [w, sep].
Tokens(s) ==
    LET starts == Sorted({i \in DOMAIN s :
                             IsWordChar(s[i]) /\ (i = 1 \/ ~IsWordChar(s[i - 1]))})
        ends == Sorted({i \in DOMAIN s :
                           IsWordChar(s[i]) /\ (i = Len(s) \/ ~IsWordChar(s[i + 1]))})
    IN  [k \in DOMAIN starts |->
            [w |-> SubSeq(s, starts[k], ends[k]),
             sep |-> SubSeq(s, IF k = 1 THEN 1 ELSE ends[k - 1] + 1, starts[k] - 1)]]

\* re.findall(r'\b\w+\b', s)
Words(s) == LET t == Tokens(s) IN [i \in DOMAIN t |-> t[i].w]

STOP_WORDS ==
    {<<"a">>, <<"a", "n">>, <<"a", "n", "d">>, <<"a", "r", "e">>, <<"a", "s">>,
     <<"a", "t">>, <<"b", "e">>, <<"b", "y">>, <<"f", "o", "r">>,
     <<"f", "r", "o", "m">>, <<"h", "a", "s">>, <<"h", "e">>, <<"i", "n">>,
     <<"i", "s">>, <<"i", "t">>, <<"i", "t", "s">>, <<"o", "f">>, <<"o", "n">>,
     <<"t", "h", "a", "t">>, <<"t", "h", "e">>, <<"t", "o">>, <<"w", "a", "s">>,
     <<"w", "i", "l", "l">>, <<"w", "i", "t", "h">>, <<"h", "a", "v", "e">>,
     <<"t", "h", "i", "s">>, <<"w", "e">>, <<"y", "o", "u">>,
     <<"y", "o", "u", "r">>, <<"o", "u", "r">>, <<"t", "h", "e", "i", "r">>,
     <<"t", "h", "e", "y">>, <<"c", "a", "n">>, <<"b", "e", "e", "n">>,
     <<"h", "a", "d">>, <<"b", "u", "t">>, <<"n", "o", "t">>, <<"o", "r">>}

\* [A-Z][a-z]+ as a whole word
IsCapitalized(w) ==
    /\ Len(w) >= 2
    /\ IsUpper(w[1])
    /\ \A i \in 2..Len(w) : IsLower(w[i])

\* \s+ between two words
IsGap(sep) == sep # <<>> /\ \A i \in DOMAIN sep : IsSpace(sep[i])

\* re.findall(r'\b[A-Z][a-z]+(?:\s+[A-Z][a-z]+){1,2}\b', text) on the tokens
\* t from position i: two or three capitalized words in a row, three when
\* possible, the scan going on after each match.
RECURSIVE CapitalizedPhrases(_, _)
CapitalizedPhrases(t, i) ==
    LET follows(k) == /\ k <= Len(t)
                      /\ IsGap(t[k].sep)
                      /\ IsCapitalized(t[k].w)
    IN  IF i > Len(t) THEN <<>>
        ELSE IF IsCapitalized(t[i].w) /\ follows(i + 1)
        THEN IF follows(i + 2)
             THEN <<t[i].w \o t[i + 1].sep \o t[i + 1].w \o t[i + 2].sep \o t[i + 2].w>>
                      \o CapitalizedPhrases(t, i + 3)
             ELSE <<t[i].w \o t[i + 1].sep \o t[i + 1].w>>
                      \o CapitalizedPhrases(t, i + 2)
        ELSE CapitalizedPhrases(t, i + 1)

\* re.findall(r'\b\w+\.js\b', text), and the same for .py: a word, a dot and
\* the word ext.
RECURSIVE FileNames(_, _, _)
FileNames(t, i, ext) ==
    IF i >= Len(t) THEN <<>>
    ELSE IF t[i + 1].sep = <<".">> /\ t[i + 1].w = ext
    THEN <<t[i].w \o <<".">> \o ext>> \o FileNames(t, i + 2, ext)
    ELSE FileNames(t, i + 1, ext)

\* re.findall(r'\b[A-Z]{2,}\b', text)
Acronyms(t) ==
    LET all == [i \in DOMAIN t |-> t[i].w]
    IN  SelectSeq(all, LAMBDA w : Len(w) >= 2 /\ \A i \in DOMAIN w : IsUpper(w[i]))

\* list(dict.fromkeys(xs)): the elements of xs once each, at their first place.
Distinct(xs) ==
    LET first == Sorted({i \in DOMAIN xs : \A j \in 1..(i - 1) : xs[j] # xs[i]})
    IN  [k \in DOMAIN first |-> xs[first[k]]]

Reverse(xs) == [i \in DOMAIN xs |-> xs[Len(xs) + 1 - i]]

\* The iteration order of a set of strings is fixed within one process and
\* depends on the hash seed the interpreter drew at start-up.  Two seeds
\* stand for the orders a process can have.
HashSeeds == {"first_seen", "reversed"}

\* list(set(xs)) in a process whose hash seed is seed.
ListOfSet(xs, seed) ==
    LET d == Distinct(xs)
    IN  IF seed = "first_seen" THEN d ELSE Reverse(d)

Take(xs, n) == SubSeq(xs, 1, Min(n, Len(xs)))

MinKeywordLength == 3

MaxKeywords == 100

\* ATSAnalyzer._extract_keywords: every element of all_keywords counts once,
\* so most_common(100) keeps the first hundred in the order of the list.
ExtractKeywords(s, seed) ==
    LET t == Tokens(s)
        phrases == CapitalizedPhrases(t, 1)
                       \o FileNames(t, 1, <<"j", "s">>)
                       \o FileNames(t, 1, <<"p", "y">>)
                       \o Acronyms(t)
        \* re.findall(r'\b\w+\b', text_lower): the words of the lowered text
        \* are the lowered words of the text
        keywords == SelectSeq([i \in DOMAIN t |-> Lower(t[i].w)],
                              LAMBDA word :
                                  /\ Len(word) >= MinKeywordLength
                                  /\ word \notin STOP_WORDS
                                  /\ ~(\A i \in DOMAIN word : IsDigit(word[i])))
        all_keywords == ListOfSet([i \in DOMAIN phrases |-> Lower(phrases[i])] \o keywords,
                                  seed)
    IN  Take(all_keywords, MaxKeywords)

-----------------------------------------------------------------------------
(* ATSAnalyzer: the four component scores and the total *)

\* n points, in three-hundredths of a point (a third of 100 points is exact)
AtsPts(n) == n * 300

\* The integer nearest to a / b, a tie going to the even one (round()).
RoundHalfEven(a, b) ==
    LET q == a \div b
        r == a % b
    IN  IF 2 * r < b THEN q
        ELSE IF 2 * r > b THEN q + 1
        ELSE IF q % 2 = 0 THEN q ELSE q + 1

\* round(x, 1) of a float that stands exactly halfway between two tenths on
\* paper: the float is a little above or a little below, the tenth follows.
FloatTies == {"down", "up"}

\* A variant that rounds the total to a whole point.
RoundWhole(x, tie) == 300 * RoundHalfEven(x, 300)

\* round(x, 1) of a score computed in floats
RoundTenth(x, tie) ==
    IF x % 30 = 15
    THEN (IF tie = "up" THEN x + 15 ELSE x - 15)
    ELSE 30 * RoundHalfEven(x, 30)

ImportantKeywords == 50

ListedKeywords == 20

MissingScanned == 30

\* important_job_keywords: every job keyword found in the job description
\* counts once in job_keyword_freq, so most_common(50) keeps the first fifty
\* in the order of job_keywords.
ImportantJobKeywords(job_keywords, job_description) ==
    LET job_desc_lower == Lower(job_description)
        present == SelectSeq(job_keywords, LAMBDA word : Contains(job_desc_lower, word))
    IN  Take(present, ImportantKeywords)

\* ATSAnalyzer._analyze_keyword_matches, without the skill lists.
AnalyzeKeywordMatches(job_keywords, resume_text, job_description) ==
    LET resume_text_lower == Lower(resume_text)
        important_job_keywords == ImportantJobKeywords(job_keywords, job_description)
        matched_keywords ==
            SelectSeq(important_job_keywords, LAMBDA kw : Contains(resume_text_lower, kw))
        missing_keywords ==
            SelectSeq(Take(important_job_keywords, MissingScanned),
                      LAMBDA kw : ~Contains(resume_text_lower, kw))
        total_keywords == Len(important_job_keywords)
        matched_count == Len(matched_keywords)
    IN  [total_keywords |-> total_keywords,
         matched_count |-> matched_count,
         match_percentage |->
             IF total_keywords > 0
             THEN 30 * RoundHalfEven(matched_count * 1000, total_keywords)
             ELSE 0,
         matched_keywords |-> Take(matched_keywords, ListedKeywords),
         missing_keywords |-> Take(missing_keywords, ListedKeywords)]

\* ATS_ISSUES["special_chars"]
SpecialChars ==
    {"U25AA", "U25AB", "U25A0", "U25A1", "U25CF", "U25CB", "U25C6", "U25C7",
     "U2605", "U2606"}

MaxTabs == 20

LongLineLength == 200

MaxLongLines == 5

\* ATSAnalyzer._check_formatting: the score and the issues found.
CheckFormatting(text) ==
    LET tables == \E i \in DOMAIN text : CountIn(text[i], {"|"}) >= 2
        special == \E i \in DOMAIN text : CountIn(text[i], SpecialChars) > 0
        tabs == SumOver([i \in DOMAIN text |-> CountIn(text[i], {"\t"})], DOMAIN text)
                    > MaxTabs
        long == Cardinality({i \in DOMAIN text : Len(text[i]) > LongLineLength})
                    > MaxLongLines
        score == 100 - (IF tables THEN 20 ELSE 0) - (IF special THEN 10 ELSE 0)
                     - (IF tabs THEN 10 ELSE 0) - (IF long THEN 15 ELSE 0)
    IN  [score |-> AtsPts(Max(score, 0)),
         issues |-> (IF tables THEN <<"tables">> ELSE <<>>)
                        \o (IF special THEN <<"special_chars">> ELSE <<>>)
                        \o (IF tabs THEN <<"tabs">> ELSE <<>>)
                        \o (IF long THEN <<"long_lines">> ELSE <<>>)]

\* section_groups of _check_sections
ExperienceNames ==
    {<<"e", "x", "p", "e", "r", "i", "e", "n", "c", "e">>,
     <<"w", "o", "r", "k", " ", "e", "x", "p", "e", "r", "i", "e", "n", "c", "e">>,
     <<"e", "m", "p", "l", "o", "y", "m", "e", "n", "t", " ", "h", "i", "s", "t", "o", "r", "y">>,
     <<"p", "r", "o", "f", "e", "s", "s", "i", "o", "n", "a", "l", " ", "e", "x", "p", "e", "r", "i", "e", "n", "c", "e">>}

EducationNames ==
    {<<"e", "d", "u", "c", "a", "t", "i", "o", "n">>,
     <<"a", "c", "a", "d", "e", "m", "i", "c", " ", "b", "a", "c", "k", "g", "r", "o", "u", "n", "d">>,
     <<"q", "u", "a", "l", "i", "f", "i", "c", "a", "t", "i", "o", "n", "s">>}

SkillsNames ==
    {<<"s", "k", "i", "l", "l", "s">>,
     <<"t", "e", "c", "h", "n", "i", "c", "a", "l", " ", "s", "k", "i", "l", "l", "s">>,
     <<"c", "o", "r", "e", " ", "c", "o", "m", "p", "e", "t", "e", "n", "c", "i", "e", "s">>,
     <<"e", "x", "p", "e", "r", "t", "i", "s", "e">>}

SectionNames(section) ==
    CASE section = "experience" -> ExperienceNames
      [] section = "education" -> EducationNames
      [] section = "skills" -> SkillsNames

SectionOrder == <<"experience", "education", "skills">>

\* ATSAnalyzer._check_sections: found / 3 * 100 and the missing sections.
CheckSections(resume_text) ==
    LET text_lower == Lower(resume_text)
        missing == SelectSeq(SectionOrder,
                             LAMBDA sec : ~\E v \in SectionNames(sec) : Contains(text_lower, v))
        found_count == Len(SectionOrder) - Len(missing)
    IN  [score |-> (found_count * AtsPts(100)) \div Len(SectionOrder),
         missing_sections |-> missing]

\* \b between s[i] and s[i + 1]
WordBoundary(s, i) ==
    (i >= 1 /\ i <= Len(s) /\ IsWordChar(s[i]))
        # (i + 1 >= 1 /\ i + 1 <= Len(s) /\ IsWordChar(s[i + 1]))

\* s[a..b] lies in s and holds characters of class only
AllIn(s, a, b, class) == a >= 1 /\ b <= Len(s) /\ \A i \in a..b : s[i] \in class

Digits == {"0", "1", "2", "3", "4", "5", "6", "7", "8", "9"}

Letters == Range(UpperLetters) \cup Range(LowerLetters)

\* re.search(r'\b[A-Za-z0-9._%+-]+@[A-Za-z0-9.-]+\.[A-Z|a-z]{2,}\b', s)
HasEmail(s) ==
    \E at \in {i \in DOMAIN s : s[i] = "@"} :
        /\ \E a \in 1..(at - 1) :
               /\ AllIn(s, a, at - 1, Letters \cup Digits \cup {".", "_", "%", "+", "-"})
               /\ WordBoundary(s, a - 1)
        /\ \E d \in {i \in (at + 2)..Len(s) : s[i] = "."} :
               /\ AllIn(s, at + 1, d - 1, Letters \cup Digits \cup {".", "-"})
               /\ \E e \in (d + 2)..Len(s) :
                      /\ AllIn(s, d + 1, e, Letters \cup {"|"})
                      /\ WordBoundary(s, e)

PhoneSeparators == {"-", ".", " ", "\t", NEWLINE}

\* \d{3}[-.\s]?\d{4} from position a; the position after it, in a set
SevenDigitsEnd(s, a) ==
    {a + 3 + o + 4 : o \in {x \in {0, 1} :
        /\ AllIn(s, a, a + 2, Digits)
        /\ (x = 1 => AllIn(s, a + 3, a + 3, PhoneSeparators))
        /\ AllIn(s, a + 3 + x, a + 6 + x, Digits)}}

\* The three phone_patterns of _check_contact_info
HasPhone(s) ==
    \/ \E a \in DOMAIN s, o \in {0, 1} :
           /\ WordBoundary(s, a - 1)
           /\ AllIn(s, a, a + 2, Digits)
           /\ (o = 1 => AllIn(s, a + 3, a + 3, PhoneSeparators))
           /\ \E e \in SevenDigitsEnd(s, a + 3 + o) : WordBoundary(s, e - 1)
    \/ \E a \in DOMAIN s, k \in 0..Len(s) :
           /\ AllIn(s, a, a, {"("})
           /\ AllIn(s, a + 1, a + 3, Digits)
           /\ AllIn(s, a + 4, a + 4, {")"})
           /\ AllIn(s, a + 5, a + 4 + k, Whitespace \cup {NEWLINE})
           /\ SevenDigitsEnd(s, a + 5 + k) # {}
    \/ \E a \in DOMAIN s, n \in 1..3, k \in 0..Len(s) :
           /\ AllIn(s, a, a, {"+"})
           /\ AllIn(s, a + 1, a + n, Digits)
           /\ AllIn(s, a + n + 1, a + n + k, Whitespace \cup {NEWLINE})
           /\ AllIn(s, a + n + k + 1, a + n + k + 3, Digits)

\* ATSAnalyzer._check_contact_info
CheckContactInfo(s) ==
    AtsPts((IF HasEmail(s) THEN 50 ELSE 0) + (IF HasPhone(s) THEN 50 ELSE 0))

\* ATSAnalyzer.analyze_ats_score in a process whose hash seed is seed.  The
\* sum is exact here; the code adds floats, and tie tells on which side of
\* a halfway value the float sum of these inputs falls.
AnalyzeAtsScore(resume_text, job_description, seed, tie) ==
    LET job_keywords == ExtractKeywords(Flatten(job_description), seed)
        keyword_analysis ==
            AnalyzeKeywordMatches(job_keywords, Flatten(resume_text),
                                  Flatten(job_description))
        formatting == CheckFormatting(resume_text)
        sections == CheckSections(Flatten(resume_text))
        contact_score == CheckContactInfo(Flatten(resume_text))
        ats_score == (50 * keyword_analysis.match_percentage + 25 * formatting.score
                          + 15 * sections.score + 10 * contact_score) \div 100
    IN  [ats_score |-> RoundTenth(ats_score, tie),
         keyword_analysis |-> keyword_analysis,
         formatting_score |-> formatting.score,
         section_score |-> sections.score,
         contact_score |-> contact_score,
         issues |-> formatting.issues \o sections.missing_sections,
         recommendations |->
             (IF keyword_analysis.match_percentage < AtsPts(60) THEN <<"keywords">> ELSE <<>>)
                 \o (IF formatting.issues # <<>> THEN <<"formatting">> ELSE <<>>)
                 \o (IF sections.missing_sections # <<>> THEN <<"sections">> ELSE <<>>)
                 \o (IF contact_score < AtsPts(100) THEN <<"contact">> ELSE <<>>)]

-----------------------------------------------------------------------------
(* analyze_ats_score on its own: two processes score the same pair of texts *)

WordDigits == <<"0", "1", "2", "3", "4", "5", "6", "7", "8", "9", "x">>

\* The i-th generated keyword: w01, w02, ..., w0x, w10, ...
Word(i) == <<"w", WordDigits[(i \div 11) + 1], WordDigits[(i % 11) + 1]>>

\* One line holding the first n generated keywords, a space before each.
WordsLine(n) ==
    [i \in 1..(4 * n) |->
        IF (i - 1) % 4 = 0 THEN " " ELSE Word((i - 1) \div 4 + 1)[(i - 1) % 4]]

SmallJobTexts ==
    {EmptyText,
     << <<"P", "y", "t", "h", "o", "n", " ", "a", "n", "d", " ", "A", "W", "S", ",", " ", "N", "o", "d", "e", ".", "j", "s">> >>,
     << <<"M", "a", "c", "h", "i", "n", "e", " ", "L", "e", "a", "r", "n", "i", "n", "g", " ", "w", "i", "t", "h", " ", "J", "a", "v", "a", " ", "i", "n", " ", "2", "0", "2", "4">> >>,
     << <<"p", "y", "t", "h", "o", "n", " ", "j", "a", "v", "a", " ", "r", "u", "s", "t">> >>}

SmallResumeTexts ==
    {OriginalText,
     << <<"a", "@", "b", ".", "c", "o">>,
        <<"5", "5", "5", "-", "1", "2", "3", "-", "4", "5", "6", "7">>,
        <<"S", "k", "i", "l", "l", "s", ":", " ", "p", "y", "t", "h", "o", "n", ",", " ", "a", "w", "s">>,
        <<"E", "x", "p", "e", "r", "i", "e", "n", "c", "e", " ", "a", "n", "d", " ", "E", "d", "u", "c", "a", "t", "i", "o", "n">> >>,
     << <<"j", "a", "v", "a", "s", "c", "r", "i", "p", "t", " ", "a", "n", "d", " ", "m", "a", "c", "h", "i", "n", "e", " ", " ", "l", "e", "a", "r", "n", "i", "n", "g", " ", "+", "1", " ", "5", "5", "5", "1", "2", "3", "4">> >>}

\* A résumé holding the first three generated keywords, a table row and a
\* square bullet.
TableResume == << WordsLine(3), <<"|", " ", "x", " ", "|">>, <<"U25A0", " ", "y">> >>

\* A job description of one keyword more than the important ones, the last
\* keyword written twice.
RepeatedKeywordJob ==
    << WordsLine(ImportantKeywords + 1) \o <<" ">> \o Word(ImportantKeywords + 1) >>

\* The pairs (résumé, job description) that are scored.
AtsInputs ==
    ((SmallResumeTexts \cup {TableResume}) \X SmallJobTexts)
    \cup {<<TableResume, RepeatedKeywordJob>>,
          <<TableResume, << WordsLine(ImportantKeywords + 1) >> >>,
          << << WordsLine(ImportantKeywords) >>, << WordsLine(ImportantKeywords + 1) >> >>,
          <<TableResume, << WordsLine(MaxKeywords + 1) >> >>}

Procs == {1, 2}

AtsInit ==
    /\ matches = <<>>
    /\ rewrites_used = 0
    /\ matches_used = 0
    /\ requests = 0
    /\ response \in {[op |-> "ats", resume_text |-> in[1], job_description |-> in[2],
                      seeds |-> sd, tie |-> tie, results |-> <<>>] :
                         in \in AtsInputs, sd \in [Procs -> HashSeeds], tie \in FloatTies}

\* Process p scores the pair of texts.
AnalyzeCall(p) ==
    /\ response.op = "ats"
    /\ requests < MaxRequests
    /\ requests' = requests + 1
    /\ response' =
           [response EXCEPT !.results =
               Append(@, [proc |-> p,
                          result |-> AnalyzeAtsScore(response.resume_text,
                                                     response.job_description,
                                                     response.seeds[p], response.tie)])]
    /\ UNCHANGED <<matches, rewrites_used, matches_used>>

AtsNext == \E p \in Procs : AnalyzeCall(p)

SpecATS == AtsInit /\ [][AtsNext]_vars

-----------------------------------------------------------------------------
(* Batches: JobMatcher.batch_match and the process_batch_matching task *)

\* results.sort(key=lambda x: x.get("match_score", 0), reverse=True): a stable
\* sort, the entries of equal score staying in their order.
SortByScore(entries) ==
    LET key(i) == entries[i].match_score
        place(i) == 1 + Cardinality({j \in DOMAIN entries : key(j) > key(i)})
                      + Cardinality({j \in 1..(i - 1) : key(j) = key(i)})
    IN  [k \in DOMAIN entries |-> entries[CHOOSE i \in DOMAIN entries : place(i) = k]]

\* JobMatcher.batch_match; gens[i] is what the backend answers for item i.
\* match_score is the sort key, x.get("match_score", 0).
BatchMatch(resume_texts, job_description, gens) ==
    SortByScore(
        [i \in DOMAIN resume_texts |->
            LET result == JobMatcherMatch(resume_texts[i], job_description, gens[i])
            IN  [resume_index |-> i - 1,
                 error |-> result.outcome = "raised",
                 match_score |-> IF result.outcome = "raised" THEN 0
                                 ELSE GetMatchScore(result, 0),
                 result |-> result]])

\* The rows of the Resume table the task can read, and the BatchJob rows.
TaskResumes == {1, 2}

BatchJobs == {1}

\* Resume.id.in_(resume_ids): the rows whose id is listed, each once.
ResumesFound(resume_ids) ==
    Sorted({r \in TaskResumes : \E i \in DOMAIN resume_ids : resume_ids[i] = r})

\* process_batch_matching.  matcher.match is a coroutine function and the
\* task calls it without awaiting it: match_result is a coroutine object,
\* match_result.get raises AttributeError and the item is recorded as failed
\* before any generation request is made.
ProcessBatchMatching(batch_job_id, resume_ids, job_id) ==
    LET resumes == ResumesFound(resume_ids)
        results == [i \in DOMAIN resumes |->
                       [resume_id |-> resumes[i], status |-> "failed", match_score |-> 0]]
    IN  IF batch_job_id \notin BatchJobs
        THEN [outcome |-> "returned_none", batch_status |-> "none",
              processed |-> 0, failed |-> 0, results |-> <<>>]
        ELSE IF job_id \notin Jobs \/ resumes = <<>>
        THEN [outcome |-> "raised", batch_status |-> "failed",
              processed |-> 0, failed |-> 0, results |-> <<>>]
        ELSE [outcome |-> "returned", batch_status |-> "completed",
              processed |-> 0, failed |-> Len(resumes),
              results |-> SortByScore(results)]

BatchGens ==
    {Gen(FALSE, Bare(MatcherMalformed)),
     Gen(TRUE, Bare(MatcherMalformed)),
     Gen(TRUE, FencedJson(MatcherNonObject)),
     Gen(TRUE, FencedJson(MatcherObject(JNum(Pts(50)), TRUE, BreakdownOf(20, 15, 8, 5, 2)))),
     Gen(TRUE, FencedJson(MatcherObject(JNum(Pts(53)), TRUE, BreakdownOf(20, 15, 8, 5, 2))))}

SeqsUpTo(S, n) == UNION {[1..k -> S] : k \in 1..n}

BatchTextOf(i) == IF i % 2 = 1 THEN OriginalText ELSE CleanText

BatchInit ==
    /\ matches = <<>>
    /\ rewrites_used = 0
    /\ matches_used = 0
    /\ requests = 0
    /\ response = NoResponse

\* One call of JobMatcher.batch_match on a list of résumé texts.
BatchMatchCall ==
    /\ requests < MaxRequests
    /\ \E gens \in SeqsUpTo(BatchGens, MaxBatch), job_id \in Jobs :
           response' = [op |-> "batch_match", status |-> 0, items |-> Len(gens),
                        gens |-> gens,
                        results |-> BatchMatch([i \in DOMAIN gens |-> BatchTextOf(i)],
                                               JobText(job_id), gens)]
    /\ requests' = requests + 1
    /\ UNCHANGED <<matches, rewrites_used, matches_used>>

\* One run of the process_batch_matching task.
BatchTaskRun ==
    /\ requests < MaxRequests
    /\ \E resume_ids \in SeqsUpTo(TaskResumes \cup {0}, MaxBatch),
          job_id \in Jobs \cup {0}, batch_job_id \in BatchJobs \cup {0},
          gen \in BatchGens :
           response' = [op |-> "batch_task", status |-> 0, items |-> Len(resume_ids),
                        resume_ids |-> resume_ids, job_id |-> job_id,
                        batch_job_id |-> batch_job_id, gen |-> gen,
                        task |-> ProcessBatchMatching(batch_job_id, resume_ids, job_id)]
    /\ requests' = requests + 1
    /\ UNCHANGED <<matches, rewrites_used, matches_used>>

\* POST /matches/batch.  The résumés are the rows found for resume_ids, their
\* texts are matched by batch_match, and the rows and the results are paired
\* by zip, place by place; a result that holds an error makes no record.
create_batch_matches(resume_ids, job_id, gens) ==
    LET resumes == ResumesFound(resume_ids)
        match_results == BatchMatch([i \in DOMAIN resumes |-> BatchTextOf(resumes[i])],
                                    JobText(job_id), gens)
        stored == SelectSeq([k \in DOMAIN resumes |-> k],
                            LAMBDA k : ~match_results[k].error)
        rows == [n \in DOMAIN stored |->
                    MatchRow(resumes[stored[n]], job_id, match_results[stored[n]].result)]
        reply(st) == [op |-> "create_batch", status |-> st, items |-> Len(resume_ids),
                      resume_ids |-> resume_ids, gens |-> gens, first_row |-> Len(matches) + 1]
    IN  /\ requests' = requests + 1
        /\ UNCHANGED rewrites_used
        /\ IF matches_used + Len(resume_ids) > MatchLimitFree
           THEN /\ response' = reply(403)
                /\ UNCHANGED <<matches, matches_used>>
           ELSE IF job_id \notin Jobs \/ Len(resumes) # Len(resume_ids)
           THEN /\ response' = reply(404)
                /\ UNCHANGED <<matches, matches_used>>
           ELSE /\ response' = reply(200)
                /\ matches' = matches \o rows
                /\ matches_used' = matches_used + Len(rows)

\* One batch request, with an answer of the backend for each résumé.
CreateBatchRequest ==
    /\ requests < MaxRequests
    /\ \E resume_ids \in SeqsUpTo(TaskResumes \cup {0}, MaxBatch), job_id \in Jobs \cup {0} :
          \E gens \in [DOMAIN resume_ids -> BatchGens] :
              create_batch_matches(resume_ids, job_id, gens)

BatchNext ==
    \/ BatchMatchCall
    \/ BatchTaskRun
    \/ CreateBatchRequest

SpecBatch == BatchInit /\ [][BatchNext]_vars

-----------------------------------------------------------------------------
(* One invocation and its generation round trip.  JobMatcher.match and
   ResumeRewriterV2.rewrite_resume call llm_client.generate(prompt,
   temperature, max_tokens) and wait for it to return or raise; neither takes
   nor passes a timeout, and the clients are built without one. *)

\* What the backend may answer the planner here: a failure, prose, JSON that
\* is no object, and a proposal.
InvocationPlannerGens ==
    {Gen(FALSE, Bare(PlannerMalformed)),
     Gen(TRUE, Bare(PlannerMalformed)),
     Gen(TRUE, FencedJson(PlannerNonObject)),
     Gen(TRUE, FencedJson(PlannerObject(ResumeStr(CleanText), JNum(Pts(62)),
                                        JNum(Pts(12)), ChangesOf(38, 40), <<>>, <<>>)))}

\* The scorer or the planner is invoked: the prompt is sent, the call waits.
StartInvocation ==
    /\ requests < MaxRequests
    /\ response.op = "none" \/ (response.op = "invocation" /\ response.phase = "completed")
    /\ \E kind \in {"match", "rewrite"}, t \in {OriginalText, CleanText}, job_id \in Jobs :
           response' = [op |-> "invocation", status |-> 0, kind |-> kind,
                        phase |-> "waiting", resume_text |-> t, job_id |-> job_id,
                        score_breakdown |->
                            IF kind = "rewrite" /\ t = OriginalText
                            THEN ScoreBreakdownOf(BreakdownOf(20, 15, 8, 5, 2))
                            ELSE NoScoreBreakdown,
                        headroom |-> NoBreakdown,
                        gen |-> Gen(FALSE, Bare(MatcherMalformed)), outcome |-> "none"]
    /\ requests' = requests + 1
    /\ UNCHANGED <<matches, rewrites_used, matches_used>>

\* The backend answers or fails the request: generate returns or raises.
\* Nothing obliges the backend to do either.
BackendResponds ==
    /\ response.op = "invocation"
    /\ response.phase = "waiting"
    /\ \E gen \in IF response.kind = "match" THEN MatcherGens ELSE InvocationPlannerGens :
           response' = [response EXCEPT !.phase = "answered", !.gen = gen]
    /\ UNCHANGED <<matches, rewrites_used, matches_used, requests>>

\* The invocation goes on after generate: it returns its result or raises.
CompleteInvocation ==
    /\ response.op = "invocation"
    /\ response.phase = "answered"
    /\ LET plan == RewriterRewriteResume(response.resume_text,
                                         JobDescription(response.job_id),
                                         Pts(DefaultMatchScore),
                                         response.score_breakdown, response.gen)
       IN  response' =
               [response EXCEPT
                   !.phase = "completed",
                   !.headroom = IF response.kind = "match" THEN NoBreakdown
                                ELSE plan.request.headroom,
                   !.outcome =
                       IF response.kind = "match"
                       THEN JobMatcherMatch(response.resume_text, JobText(response.job_id),
                                            response.gen).outcome
                       ELSE plan.outcome]
    /\ UNCHANGED <<matches, rewrites_used, matches_used, requests>>

InvocationNext ==
    \/ StartInvocation
    \/ BackendResponds
    \/ CompleteInvocation

\* The process runs whenever it can; the backend is under no obligation.
SpecInvocation ==
    /\ BatchInit
    /\ [][InvocationNext]_vars
    /\ WF_vars(StartInvocation)
    /\ WF_vars(CompleteInvocation)

-----------------------------------------------------------------------------
(* A match that holds a rewrite: rescans of the improved text, and rewrites *)

\* The row after the rescan: match_result.get(key, match.<key>) for each
\* column, the score now being the one of the improved text.
RescannedRow(row, match_result) ==
    [row EXCEPT
        !.match_score = GetMatchScore(match_result, row.match_score),
        !.missing_skills = IF match_result.missing_skills = "none" THEN row.missing_skills
                           ELSE match_result.missing_skills,
        !.scored = IF match_result.match_score.ty = "num" THEN match_result.request
                   ELSE row.scored,
        !.breakdown = IF match_result.match_score.ty # "num" THEN row.breakdown
                      ELSE IF match_result.has_breakdown
                      THEN ScoreBreakdownOf(match_result.score_breakdown)
                      ELSE NoScoreBreakdown]

\* POST /resumes/improved/{match_id}/rescan, save_to_collection left false.
\* analysis_ok is FALSE when ResumeAnalyzer.analyze raises.
rescan_improved_resume(match_id, analysis_ok, gen) ==
    LET match == matches[match_id]
        improved_text == match.improved_resume_data.improved_resume
        match_result == JobMatcherMatch(improved_text, JobText(match.job_id), gen)
        reply(st) == [op |-> "rescan", status |-> st, match_id |-> match_id]
    IN  /\ requests' = requests + 1
        /\ UNCHANGED rewrites_used
        /\ IF match_id \notin DOMAIN matches
           THEN /\ response' = reply(404)
                /\ UNCHANGED <<matches, matches_used>>
           ELSE IF ~match.improved_resume_data.present
           THEN /\ response' = reply(400)
                /\ UNCHANGED <<matches, matches_used>>
           ELSE IF matches_used >= MatchLimitFree
           THEN /\ response' = reply(403)
                /\ UNCHANGED <<matches, matches_used>>
           ELSE IF improved_text = EmptyText
           THEN /\ response' = reply(400)
                /\ UNCHANGED <<matches, matches_used>>
           ELSE IF ~analysis_ok \/ match_result.outcome = "raised"
           THEN /\ response' = reply(500)
                /\ UNCHANGED <<matches, matches_used>>
           ELSE /\ response' = reply(200)
                /\ matches' = [matches EXCEPT ![match_id] = RescannedRow(match, match_result)]
                /\ matches_used' = matches_used + 1

\* The planner answers used here: a failure and a proposal.
RescanPlannerGens ==
    {Gen(FALSE, Bare(PlannerMalformed)),
     Gen(TRUE, FencedJson(PlannerObject(ResumeStr(CleanText), JNum(Pts(62)),
                                        JNum(Pts(12)), ChangesOf(38, 40), <<>>, <<>>)))}

\* The scorer answers used here: a failure, no score, and two scores.
RescanMatcherGens ==
    {Gen(FALSE, Bare(MatcherMalformed)),
     Gen(TRUE, Bare(MatcherObject(JAbsent, FALSE, NoBreakdown)))}
    \cup {Gen(TRUE, FencedJson(MatcherObject(JNum(Pts(sc)), TRUE, BreakdownOf(20, 15, 8, 5, 2)))) :
              sc \in {50, 53}}

\* A stored match after one rewrite of its résumé for its job.
RewrittenRows ==
    {[row EXCEPT !.improved_resume_data =
          LET result == RewriterRewriteResume(ResumeRawText(row.resume_id),
                                              JobDescription(row.job_id), row.match_score,
                                              EndpointScoreBreakdown(1), pgen)
              v == PostRescanValidation(result, JobDescription(row.job_id),
                                        row.match_score, rgen)
          IN  ResponseData(row.resume_id, row.job_id, 1, row.match_score, result, v)] :
        row \in {MatchRow(1, j, JobMatcherMatch(ResumeRawText(1), JobText(j), g)) :
                    j \in Jobs, g \in RescanMatcherGens \ {Gen(FALSE, Bare(MatcherMalformed))}},
        pgen \in RescanPlannerGens \ {Gen(FALSE, Bare(PlannerMalformed))},
        rgen \in RescanMatcherGens}

RescanInit ==
    /\ matches \in {<<row>> : row \in RewrittenRows}
    /\ rewrites_used = 1
    /\ matches_used = 1
    /\ response = NoResponse
    /\ requests = 0

RescanRequest ==
    /\ requests < MaxRequests
    /\ \E match_id \in 1..(Len(matches) + 1), analysis_ok \in BOOLEAN,
          gen \in RescanMatcherGens :
           rescan_improved_resume(match_id, analysis_ok, gen)

\* A rewrite request for the résumé and a job, the match found by the pair.
RewriteAgain ==
    /\ requests < MaxRequests
    /\ \E job_id \in Jobs, regenerate \in BOOLEAN,
          pgen \in RescanPlannerGens, rgen \in RescanMatcherGens :
           rewrite_resume(1, job_id, 0, regenerate, pgen, rgen)

RescanNext ==
    \/ RescanRequest
    \/ RewriteAgain

SpecRescan == RescanInit /\ [][RescanNext]_vars

-----------------------------------------------------------------------------
(* The ATS block of JobMatcher.match: the analysis and the split of its issues *)

\* The issues analyze_ats_score returns are strings: the messages of
\* _check_formatting followed by the section names of _check_sections.
IssueStr(text) == [ty |-> "str", type |-> "none", text |-> text]

IssueValues(issues) == [k \in DOMAIN issues |-> IssueStr(issues[k])]

IsSectionIssue(issue) == issue.ty = "dict" /\ issue.type = "section"

IsOtherIssue(issue) == ~IsSectionIssue(issue)

IssueTexts(issues) == [k \in DOMAIN issues |-> issues[k].text]

\* "Transform issues into formatting_issues and missing_sections": a dict
\* of type "section" is a missing section, anything else a formatting issue.
AtsIssues(ats_result) ==
    LET issues == IssueValues(ats_result.issues)
    IN  [formatting_score |-> ats_result.formatting_score,
         section_score |-> ats_result.section_score,
         contact_score |-> ats_result.contact_score,
         formatting_issues |-> IssueTexts(SelectSeq(issues, IsOtherIssue)),
         missing_sections |-> IssueTexts(SelectSeq(issues, IsSectionIssue)),
         recommendations |-> ats_result.recommendations]

MatchAtsInit ==
    /\ matches = <<>>
    /\ rewrites_used = 0
    /\ matches_used = 0
    /\ requests = 0
    /\ response \in {[op |-> "match_ats", status |-> 0, resume_text |-> in[1],
                      job_description |-> in[2], seed |-> sd, tie |-> tie] :
                         in \in AtsInputs, sd \in HashSeeds, tie \in FloatTies}

\* The ATS block of one call of JobMatcher.match.
MatchAtsBlock ==
    /\ response.op = "match_ats"
    /\ requests = 0
    /\ requests' = requests + 1
    /\ LET ats_result == AnalyzeAtsScore(response.resume_text, response.job_description,
                                         response.seed, response.tie)
       IN  response' = [op |-> "match_ats_done", status |-> 0,
                        resume_text |-> response.resume_text,
                        job_description |-> response.job_description,
                        ats_score |-> ats_result.ats_score,
                        keyword_matches |-> ats_result.keyword_analysis,
                        ats_issues |-> AtsIssues(ats_result)]
    /\ UNCHANGED <<matches, rewrites_used, matches_used>>

SpecMatchAts == MatchAtsInit /\ [][MatchAtsBlock]_vars

-----------------------------------------------------------------------------
(* Concurrent rewrite requests of one free-plan user.  The server runs
   several worker processes (settings.workers); each request loads its own
   User object in get_current_user, tests the limit on it, generates, adds 1
   to the value it loaded and commits that value. *)

Clients == 1..MaxRequests

IdleCall == [pc |-> "idle", regenerate |-> FALSE, seen_used |-> 0, match |-> 0, status |-> 0]

\* The match of résumé 1 and job 1 the requests work on.
QuotaRow ==
    MatchRow(1, 1, JobMatcherMatch(OriginalText, JobText(1),
                                   Gen(TRUE, Bare(MatcherObject(JNum(Pts(50)), FALSE,
                                                                NoBreakdown)))))

\* What a request caches on its match, reduced to the request that made it.
QuotaData(r) == [present |-> TRUE, resume_id |-> 1, job_id |-> 1, made_by |-> r]

\* `generated` counts the generations performed, those before the first
\* request included.
QuotaInit ==
    /\ matches \in {<<>>, <<QuotaRow>>}
    /\ matches_used = Len(matches)
    /\ requests = 0
    /\ \E used \in 0..RewriteLimitFree :
           /\ rewrites_used = used
           /\ response = [op |-> "quota", status |-> 0, generated |-> used,
                          calls |-> [r \in Clients |-> IdleCall]]

SetCall(r, call) == [response EXCEPT !.calls[r] = call]

\* get_current_user: db.query(User)...first() reads the user's row.
LoadUser(r) ==
    /\ response.op = "quota"
    /\ response.calls[r].pc = "idle"
    /\ \E regenerate \in BOOLEAN :
           response' = SetCall(r, [IdleCall EXCEPT !.pc = "loaded",
                                                   !.regenerate = regenerate,
                                                   !.seen_used = rewrites_used])
    /\ requests' = requests + 1
    /\ UNCHANGED <<matches, rewrites_used, matches_used>>

\* The match is looked up; a cached result is returned, or the limit is
\* tested on the loaded user, before anything is generated.
CheckCacheAndLimit(r) ==
    LET call == response.calls[r]
        m == FindMatch(1, 1, 0)
    IN  /\ response.op = "quota"
        /\ call.pc = "loaded"
        /\ response' =
               SetCall(r,
                   IF m # 0 /\ matches[m].improved_resume_data.present /\ ~call.regenerate
                   THEN [call EXCEPT !.pc = "done", !.status = 200, !.match = m]
                   ELSE IF call.seen_used >= RewriteLimitFree
                   THEN [call EXCEPT !.pc = "done", !.status = 403, !.match = m]
                   ELSE [call EXCEPT !.pc = "generating", !.match = m])
        /\ UNCHANGED <<matches, rewrites_used, matches_used, requests>>

\* await rewriter.rewrite_resume(...): the generation succeeds, or raises
\* and the request is answered 500.
Generate(r) ==
    LET call == response.calls[r]
    IN  /\ response.op = "quota"
        /\ call.pc = "generating"
        /\ \/ response' = [SetCall(r, [call EXCEPT !.pc = "generated"])
                               EXCEPT !.generated = @ + 1]
           \/ response' = SetCall(r, [call EXCEPT !.pc = "done", !.status = 500])
        /\ UNCHANGED <<matches, rewrites_used, matches_used, requests>>

\* match.improved_resume_data = response_data;
\* current_user.resume_rewrites_used += 1; db.commit()
CommitRewrite(r) ==
    LET call == response.calls[r]
    IN  /\ response.op = "quota"
        /\ call.pc = "generated"
        /\ response' = SetCall(r, [call EXCEPT !.pc = "done", !.status = 200])
        /\ rewrites_used' = call.seen_used + 1
        /\ matches' = IF call.match # 0
                      THEN [matches EXCEPT ![call.match].improved_resume_data = QuotaData(r)]
                      ELSE matches
        /\ UNCHANGED <<matches_used, requests>>

QuotaNext ==
    \E r \in Clients :
        \/ LoadUser(r)
        \/ CheckCacheAndLimit(r)
        \/ Generate(r)
        \/ CommitRewrite(r)

SpecQuota == QuotaInit /\ [][QuotaNext]_vars

-----------------------------------------------------------------------------
(* Properties *)

\* A rewrite request answered 200 (from the cache or freshly generated).
RewriteAnswered == response.op = "rewrite" /\ response.status = 200

\* A rewrite request answered 200 with a newly generated result.
RewriteGenerated == RewriteAnswered /\ ~response.cached

\* The rewrite answer carries a ValidationResult.
Validated == RewriteAnswered /\ response.body.validation.present

MatchDone == response.op = "match_done"

MatchReturned == MatchDone /\ response.match_result.outcome = "returned"

\* C1: in every rewrite response the surfaced new score and improvement are
\* the re-scored actual score and actual improvement, on every path (rescan
\* raised, rescan skipped for an empty text, rescan without a match_score).
C1_SurfacedScoreIsActual ==
    RewriteAnswered =>
        /\ response.body.rescanned
        /\ response.body.rescan.outcome = "returned"
        /\ response.body.rescan.match_score.ty = "num"
        /\ response.body.estimated_new_score = response.body.rescan.match_score
        /\ response.body.score_improvement =
               JNum(response.body.rescan.match_score.v - response.body.original_score)

\* C2: for every ScoreBreakdown returned by JobMatcher.match the total
\* match score equals the sum of the five category points.
C2_TotalIsSumOfCategories ==
    (/\ MatchReturned
     /\ response.match_result.has_breakdown
     /\ response.match_result.match_score.ty = "num")
        => response.match_result.match_score.v =
               SumOver(response.match_result.score_breakdown, Categories)

\* C3: whatever the generator returns, the result of JobMatcher.match has its
\* total in [0,100] and every category's points in [0, cap].
C3_ScoresClamped ==
    MatchReturned =>
        /\ response.match_result.match_score.ty = "num" =>
               /\ response.match_result.match_score.v >= 0
               /\ response.match_result.match_score.v <= Pts(100)
        /\ response.match_result.has_breakdown =>
               \A c \in Categories :
                   /\ response.match_result.score_breakdown[c] >= 0
                   /\ response.match_result.score_breakdown[c] <= Pts(Cap(c))

\* The answer text (after fence stripping) is not the expected structure:
\* not JSON, JSON that is no object, or an object whose match_score is not a
\* number.
Unparseable(content) ==
    LET parts == StripFence(content)
    IN  \/ ~IsJson(parts)
        \/ parts[1].body.ty = "nonobject"
        \/ parts[1].body.match_score.ty = "nonnum"

\* C4: for every answer text that cannot be parsed into the expected
\* structure, JobMatcher.match returns a tagged parse-error result carrying
\* the raw text and never raises.
C4_UnparseableIsTagged ==
    (MatchDone /\ response.gen.ok /\ Unparseable(response.gen.content)) =>
        /\ response.match_result.outcome = "returned"
        /\ response.match_result.parse_error
        /\ response.match_result.raw_response = RawText(StripFence(response.gen.content))
        /\ response.match_result.match_score.ty = "absent"

\* The part of C4 the code keeps: text that is not JSON at all comes back
\* tagged, with the fence-stripped text.
MalformedJsonIsTagged ==
    (MatchDone /\ response.gen.ok /\ ~IsJson(StripFence(response.gen.content))) =>
        /\ response.match_result.outcome = "returned"
        /\ response.match_result.parse_error
        /\ response.match_result.raw_response = ProseText

\* C5: a parse-error result is "scoring unavailable" for every caller: no
\* Match row is stored from it, and the reconciler reports no actual score
\* from it.
C5_ParseErrorIsUnavailable ==
    /\ (response.op = "create_match" /\ response.status = 200) =>
           ~response.match_result.parse_error
    /\ (RewriteGenerated /\ response.body.rescanned
            /\ response.body.rescan.parse_error) =>
           ~response.body.validation.present

\* C6: every projected_points of a proposal the endpoint answers with is at
\* most the category cap, and its improvement is projected minus original.
C6_ProjectedPointsClamped ==
    (RewriteAnswered /\ response.body.raw_response.has_changes) =>
        \A c \in Categories :
            LET ch == response.body.raw_response.match_score_changes[c]
            IN  /\ ch.projected_points <= Pts(Cap(c))
                /\ ch.improvement = ch.projected_points - ch.original_points

\* A target text without its trailing blank lines.
RECURSIVE TrimBlankEnd(_)
TrimBlankEnd(text) ==
    IF text # <<>> /\ IsBlank(text[Len(text)])
    THEN TrimBlankEnd(SubSeq(text, 1, Len(text) - 1))
    ELSE text

\* C7: the re-scan scores exactly the normalized proposal text, against the
\* target text the original score of the match was computed against (trailing
\* blank lines apart).
C7_RescanSameTextSameTarget ==
    (RewriteGenerated /\ Validated /\ ~response.body.raw_response.parse_error) =>
        /\ response.body.rescan.request.resume_text =
               PostProcess(response.body.raw_response.proposed_text)
        /\ response.body.match_id # 0 =>
               TrimBlankEnd(response.body.rescan.request.job_description) =
                   TrimBlankEnd(matches[response.body.match_id].scored.job_description)

\* The text half of C7 alone: the re-scan scores the normalized proposal.
RescanScoresNormalizedText ==
    (RewriteGenerated /\ response.body.rescanned) =>
        /\ response.body.rescan.request.resume_text =
               PostProcess(response.body.raw_response.proposed_text)
        /\ response.body.improved_resume = response.body.rescan.request.resume_text

\* C8: in every ValidationResult, and in the rewrite response carrying it,
\* ceiling_reached is true exactly when actual_improvement
\* (= actual_score - original_score) is at most 2.
C8_CeilingIffSmallImprovement ==
    Validated =>
        LET v == response.body.validation
        IN  /\ v.actual_improvement = v.actual_score - response.body.original_score
            /\ v.ceiling_reached <=> (v.actual_improvement <= Pts(2))
            /\ response.body.ceiling_reached = v.ceiling_reached

C8_Witness ==
    /\ Validated
    /\ response.body.validation.actual_improvement = Pts(2)
    /\ response.body.ceiling_reached

\* An improvement above the threshold is answered without the ceiling flag.
C8_WitnessAbove ==
    /\ Validated
    /\ response.body.validation.actual_improvement = Pts(3)
    /\ ~response.body.ceiling_reached

\* C9 as stated: the reported accuracy_gap is |estimated - actual| and
\* reliable holds exactly when the reported gap is at most 5.
C9_ReportedGapExact ==
    Validated =>
        LET v == response.body.validation
        IN  /\ v.accuracy_gap = Abs(v.estimated_score - v.actual_score)
            /\ v.reliable <=> (v.accuracy_gap <= Pts(5))

\* C9 amended: the reported accuracy_gap is |estimated - actual| rounded to
\* one decimal (a whole number of tenths, within 0.05 of the exact gap), and
\* reliable holds exactly when the exact gap is at most 5.
C9_GapRoundedReliableExact ==
    Validated =>
        LET v == response.body.validation
            exact == Abs(v.estimated_score - v.actual_score)
        IN  /\ v.accuracy_gap % 10 = 0
            /\ Abs(v.accuracy_gap - exact) <= 5
            /\ v.reliable <=> (exact <= Pts(5))

\* A gap of 5.04: reported as 5.0, and not reliable.
C9_Witness ==
    /\ Validated
    /\ Abs(response.body.validation.estimated_score
               - response.body.validation.actual_score) = Pts(5) + 4
    /\ response.body.validation.accuracy_gap = Pts(5)
    /\ ~response.body.validation.reliable

\* C10: a malformed planner answer is never coerced into a proposal: no
\* rewrite is answered (normalized, re-scored, returned, cached, counted)
\* from a planner result that carries parse_error.
C10_MalformedPlanNotCoerced ==
    /\ RewriteAnswered => ~response.body.raw_response.parse_error
    /\ \A i \in DOMAIN matches :
           matches[i].improved_resume_data.present =>
               ~matches[i].improved_resume_data.raw_response.parse_error

\* The last two passes over the text were both transform t.
Twice(t) ==
    /\ response.op = "text"
    /\ response.transform = t
    /\ response.previous = t

\* C11: TableStrip is idempotent: a second pass of remove_tables_from_resume
\* right after a first one leaves the text as the first pass left it.
C11_TableStripIdempotent ==
    Twice(Transform("remove_tables_from_resume", 0)) => response.text = response.before

\* The table of TableText has been stripped, twice over.
C11_Witness ==
    /\ Twice(Transform("remove_tables_from_resume", 0))
    /\ response.original = TableText
    /\ response.text = << <<"x", " ", "y">> >>

\* C12: BulletNormalizer is idempotent, also for list items whose content
\* starts with a dash, a star or a mapped glyph: a second pass of
\* normalize_bullets right after a first one changes nothing.
C12_BulletNormalizerIdempotent ==
    Twice(Transform("normalize_bullets", 0)) => response.text = response.before

\* A list item whose content starts with a dash has been normalized twice.
C12_Witness ==
    /\ Twice(Transform("normalize_bullets", 0))
    /\ response.original = << <<"-", " ", "-", " ">> >>
    /\ response.text = << <<BULLET, " ", "-", " ">> >>

\* C13: LineWrapper is idempotent for every text and every maximum length,
\* also for a line over the limit made of one unbreakable word: a second
\* pass of fix_line_lengths with the same limit changes nothing.
C13_LineWrapperIdempotent ==
    (/\ response.op = "text"
     /\ response.transform.name = "fix_line_lengths"
     /\ response.previous = response.transform)
        => response.text = response.before

\* C14: the pipeline TableStrip -> BulletNormalizer -> LineWrapper is a no-op
\* on its own output: a second pass right after a first one changes nothing.
C14_PipelineIdempotent ==
    Twice(Transform("post_process", RewriteMaxLength)) => response.text = response.before


\* The results of analyze_ats_score collected so far.
AtsResults ==
    IF response.op = "ats" THEN {response.results[i].result : i \in DOMAIN response.results}
    ELSE {}

\* A hundred times the weighted sum of the component scores of a result.
WeightedSum(result) ==
    50 * result.keyword_analysis.match_percentage + 25 * result.formatting_score
        + 15 * result.section_score + 10 * result.contact_score

InRange(x) == 0 <= x /\ x <= AtsPts(100)

ComponentsInRange(result) ==
    /\ InRange(result.keyword_analysis.match_percentage)
    /\ InRange(result.formatting_score)
    /\ InRange(result.section_score)
    /\ InRange(result.contact_score)
    /\ InRange(result.ats_score)

C16_AtsDeterministic ==
    response.op = "ats" =>
        \A i, j \in DOMAIN response.results :
            response.results[i].result = response.results[j].result

\* Two invocations in one process return the same result.
SameProcessSameResult ==
    response.op = "ats" =>
        \A i, j \in DOMAIN response.results :
            response.results[i].proc = response.results[j].proc
                => response.results[i].result = response.results[j].result

\* C17: in a batch a failure on one item is caught and recorded for that
\* item and the other items are still processed: the batch is not aborted,
\* it yields one result entry per input item, succeeded + failed is the
\* number of items, and an item the backend answers well succeeds whatever
\* happens to the others.
C17_BatchContinuesOnError ==
    /\ response.op = "batch_match" =>
           /\ Len(response.results) = response.items
           /\ {response.results[k].resume_index : k \in DOMAIN response.results}
                  = 0..(response.items - 1)
           /\ \A k \in DOMAIN response.results :
                  LET e == response.results[k]
                  IN  e.error = (JobMatcherMatch(BatchTextOf(e.resume_index + 1), EmptyText,
                                                 response.gens[e.resume_index + 1]).outcome
                                     = "raised")
    /\ (/\ response.op = "batch_task"
        /\ response.batch_job_id \in BatchJobs
        /\ response.job_id \in Jobs) =>
           /\ response.task.outcome = "returned"
           /\ Len(response.task.results) = response.items
           /\ response.task.processed + response.task.failed = response.items
           /\ (JobMatcherMatch(OriginalText, EmptyText, response.gen).outcome = "returned"
                   => response.task.processed = response.items)

\* batch_match alone keeps the contract: one entry per item, a failure
\* recorded on the item that failed and on no other.
BatchMatchContinuesOnError ==
    response.op = "batch_match" =>
        /\ Len(response.results) = response.items
        /\ {response.results[k].resume_index : k \in DOMAIN response.results}
               = 0..(response.items - 1)
        /\ \A k \in DOMAIN response.results :
               LET e == response.results[k]
               IN  e.error = (JobMatcherMatch(BatchTextOf(e.resume_index + 1), EmptyText,
                                              response.gens[e.resume_index + 1]).outcome
                                  = "raised")

\* C18: every invocation of the scorer or the planner guards its generation
\* round trip with a timeout, so that an invocation whose backend never
\* answers still completes (with a failure) instead of waiting forever.
C18_InvocationCompletes ==
    (response.op = "invocation" /\ response.phase = "waiting")
        ~> (response.op = "invocation" /\ response.phase = "completed")

\* Once the backend has answered or failed, the invocation completes.
AnsweredInvocationCompletes ==
    (response.op = "invocation" /\ response.phase = "answered")
        ~> (response.op = "invocation" /\ response.phase = "completed")

\* The gap between the estimate and the re-scored value, before rounding.
ValidationGap ==
    Abs(response.body.validation.estimated_score - response.body.validation.actual_score)

\* The message class the selection table gives for a gap and an improvement.
TableMessage(gap, actual_improvement) ==
    CASE gap <= Pts(3) -> "estimate accurate"
      [] gap > Pts(3) /\ gap <= Pts(5) -> "mostly accurate"
      [] gap > Pts(5) /\ gap <= Pts(10) /\ actual_improvement > 0 ->
             "improved less than estimated"
      [] gap > Pts(5) /\ gap <= Pts(10) /\ actual_improvement <= 0 ->
             "unchanged - already optimized"
      [] gap > Pts(10) /\ actual_improvement > 0 -> "estimate optimistic"
      [] gap > Pts(10) /\ actual_improvement <= 0 -> "no material gain"

\* C19: the reconciliation message class is the one the selection table gives
\* for the accuracy gap and the sign of the actual improvement: "estimate
\* accurate" up to 3, "mostly accurate" up to 5 (both whatever the
\* improvement), "improved less than estimated" or "unchanged - already
\* optimized" up to 10, "estimate optimistic" or "no material gain" above 10.
C19_MessageFollowsTable ==
    Validated =>
        response.body.validation.validation_message
            = TableMessage(ValidationGap, response.body.validation.actual_improvement)

\* A gap just above 5 (5.05, reported as 5.0) with a score that did not improve.
C19_Witness ==
    /\ Validated
    /\ ValidationGap > Pts(5)
    /\ response.body.validation.accuracy_gap = Pts(5)
    /\ response.body.validation.actual_improvement <= 0
    /\ response.body.validation.validation_message = "unchanged - already optimized"

\* Scenario E: the estimate promised 12 points and the re-score found 1.
ScenarioE ==
    /\ Validated
    /\ response.body.validation.estimated_improvement = Pts(12)
    /\ response.body.validation.actual_improvement = Pts(1)

\* C20: for an estimated improvement of 12 and an actual improvement of 1
\* (gap 11) the ceiling is reached, the estimate is not reliable, and the
\* message class is "no material gain" if the actual improvement is at most
\* 0, else "improved less than estimated".
C20_ScenarioE ==
    ScenarioE =>
        /\ response.body.validation.ceiling_reached
        /\ ~response.body.validation.reliable
        /\ response.body.validation.validation_message
               = (IF response.body.validation.actual_improvement <= 0
                  THEN "no material gain" ELSE "improved less than estimated")

\* C20 as the code has it: for an estimated improvement of 12 and an actual
\* improvement of 1 (gap 11) the ceiling is reached, the estimate is not
\* reliable, and the message class is "estimate optimistic", the class of a
\* gap above 10 with a score that did improve.
C20_ScenarioEOptimistic ==
    ScenarioE =>
        /\ ValidationGap = Pts(11)
        /\ response.body.validation.ceiling_reached
        /\ response.body.ceiling_reached
        /\ ~response.body.validation.reliable
        /\ response.body.validation.validation_message = "estimate optimistic"

C20_Witness ==
    /\ ScenarioE
    /\ response.body.original_score = Pts(50)
    /\ response.body.validation.actual_score = Pts(51)
    /\ response.body.validation.estimated_score = Pts(62)

\* C21: for every rewrite issued through the rewrite endpoint on a match, the
\* headroom given to the generator is, for each category, the category's cap
\* (40/30/15/10/5) minus the points that category has in the score breakdown
\* of the match being improved.
C21_HeadroomFromPriorBreakdown ==
    (RewriteGenerated /\ response.body.match_id # 0
        /\ matches[response.body.match_id].breakdown.given) =>
        \A c \in Categories :
            response.body.raw_response.request.headroom[c]
                = Pts(Cap(c)) - matches[response.body.match_id].breakdown.points[c]

\* A direct call of the planner with a score breakdown computes the headroom
\* of each category from the points of that breakdown.
DirectPlannerHeadroom ==
    (response.op = "invocation" /\ response.kind = "rewrite"
        /\ response.phase = "completed") =>
        \A c \in Categories :
            response.headroom[c]
                = Pts(Cap(c)) - (IF response.score_breakdown.given
                                 THEN response.score_breakdown.points[c] ELSE 0)

\* A pass of TableStrip has just run.
TableStripped ==
    /\ response.op = "text"
    /\ response.transform = Transform("remove_tables_from_resume", 0)

CountOf(line, chars) == Cardinality({i \in DOMAIN line : line[i] \in chars})

OnlyRuleChars(line) == \A i \in DOMAIN line : line[i] \in {" ", "\t", "+", "-", "=", "|"}

OverRatio(line) == Len(line) > 0 /\ CountOf(line, {"|", "+", "-", "="}) * 10 > 4 * Len(line)

\* The drop rule as stated: all rule characters, or ratio over 0.4, or 3 pipes.
StatedDrop(line) ==
    OnlyRuleChars(line) \/ OverRatio(line) \/ CountOf(line, {"|"}) >= 3

StatedKeep(line) == ~StatedDrop(line)

OneOrTwoPipes(line) == CountOf(line, {"|"}) \in {1, 2}

\* The drop rule of the code: blank lines are exempt, and a line made of rule
\* characters only is a border from 4 characters on.
StrippedLine(line) ==
    /\ \E i \in DOMAIN line : line[i] \notin {" ", "\t"}
    /\ \/ OnlyRuleChars(line) /\ Len(line) >= 4
       \/ OverRatio(line)
       \/ CountOf(line, {"|"}) >= 3

UnstrippedLine(line) == ~StrippedLine(line)

\* '\n'.join of the selected lines, read back as lines.
LinesLeft(lines) == IF lines = <<>> THEN << <<>> >> ELSE lines

\* C22: TableStrip drops exactly the lines that are composed entirely of
\* whitespace/+/-/=/| characters, or whose ratio of |,+,-,= characters to
\* their length exceeds 0.4, or that contain 3 or more pipes; every line with
\* 1 or 2 pipes is preserved unchanged; the kept lines stay in their order.
C22_TableStripRule ==
    TableStripped =>
        /\ response.text = LinesLeft(SelectSeq(response.before, StatedKeep))
        /\ SelectSeq(response.text, OneOrTwoPipes)
               = SelectSeq(response.before, OneOrTwoPipes)

\* C22 as the code has it: TableStrip keeps every blank line; it drops a
\* non-blank line that has at least 4 characters and is composed entirely of
\* whitespace/+/-/=/| characters, or whose ratio of |,+,-,= characters to
\* its length exceeds 0.4, or that contains 3 or more pipes; a line with 1 or
\* 2 pipes is preserved unchanged unless one of these rules drops it; the
\* kept lines are unchanged and stay in their original order.
C22_TableStripRuleNonBlank ==
    TableStripped =>
        /\ response.text = LinesLeft(SelectSeq(response.before, UnstrippedLine))
        /\ \A i \in DOMAIN response.before :
               (OneOrTwoPipes(response.before[i]) /\ UnstrippedLine(response.before[i]))
                   => \E j \in DOMAIN response.text : response.text[j] = response.before[i]

\* The nine-cell row and the half-pipe line are gone; the contact line with
\* its one pipe, the blank line and the prose are left, in that order.
C22_Witness ==
    /\ TableStripped
    /\ response.before = ContactText
    /\ response.text = <<ContactLine, <<" ", " ">>, <<"x", " ", "y">>>>

\* The keywords extracted from a text by the process that made result i.
KeywordsOf(text, i) ==
    Range(ExtractKeywords(Flatten(text), response.seeds[response.results[i].proc]))

\* C23: if no keyword extracted from the target is among the keywords
\* extracted from the profile, the ATS keyword match percentage is 0; and the
\* percentage is always matched important keywords / important keywords x 100.
C23_KeywordMatchPct ==
    response.op = "ats" =>
        \A i \in DOMAIN response.results :
            LET ka == response.results[i].result.keyword_analysis
            IN  /\ (KeywordsOf(response.job_description, i)
                        \cap KeywordsOf(response.resume_text, i) = {})
                       => ka.match_percentage = 0
                /\ ka.match_percentage * ka.total_keywords
                       = AtsPts(100) * ka.matched_count

\* With no important keyword at all, or none of them found in the profile
\* text, the percentage is 0; otherwise it is the matched share of the
\* important keywords, rounded to one decimal.
KeywordMatchPctRounded ==
    response.op = "ats" =>
        \A i \in DOMAIN response.results :
            LET ka == response.results[i].result.keyword_analysis
            IN  /\ ka.match_percentage % 30 = 0
                /\ Abs(ka.match_percentage * ka.total_keywords
                           - AtsPts(100) * ka.matched_count) <= 15 * ka.total_keywords
                /\ ka.matched_count = 0 => ka.match_percentage = 0

\* How many times a word stands in a text.
Occurrences(s, word) ==
    Cardinality({k \in 1..(Len(s) - Len(word) + 1) :
                    SubSeq(s, k, k + Len(word) - 1) = word})

\* C24: the important keywords are the target's keywords ranked by how often
\* they occur in the target text, cut to 50: there are at most 50 of them and
\* no keyword left out occurs more often in the target than one kept.
C24_ImportantAreMostFrequent ==
    response.op = "ats" =>
        \A i \in DOMAIN response.results :
            LET job == Flatten(response.job_description)
                job_keywords ==
                    ExtractKeywords(job, response.seeds[response.results[i].proc])
                important == Range(ImportantJobKeywords(job_keywords, job))
            IN  /\ Cardinality(important) <= ImportantKeywords
                /\ \A out \in Range(job_keywords) \ important, kept \in important :
                       Occurrences(Lower(job), out) <= Occurrences(Lower(job), kept)

\* The important keywords are at most 50 and the number reported as
\* total_keywords.
ImportantAtMostFifty ==
    \A result \in AtsResults : result.keyword_analysis.total_keywords <= ImportantKeywords

\* A batch request has been answered 200.
BatchCreated == response.op = "create_batch" /\ response.status = 200

\* C25: every Match record stored by create_batch_matches for a résumé holds
\* the score and the findings computed from that résumé's own text, whatever
\* the batch size, the order of the scores and the failures of single items.
C25_BatchRecordsOwnResult ==
    \A m \in DOMAIN matches :
        matches[m].scored.resume_text = BatchTextOf(matches[m].resume_id)

\* The records of a batch are the non-failed results, one record each.
BatchRecordsCount ==
    BatchCreated =>
        Len(matches) - (response.first_row - 1)
            = Cardinality({i \in DOMAIN response.gens :
                              JobMatcherMatch(OriginalText, EmptyText,
                                              response.gens[i]).outcome = "returned"})

\* No rewrite request is under way.
QuotaQuiet ==
    \A r \in Clients : response.calls[r].pc \in {"idle", "done"}

\* C26: for a free-plan user, under any interleaving of concurrent rewrite
\* requests, at most 3 generations are ever performed and, once the requests
\* are answered, resume_rewrites_used is the number of generations performed.
C26_QuotaCountsGenerations ==
    response.op = "quota" =>
        /\ response.generated <= RewriteLimitFree
        /\ QuotaQuiet => rewrites_used = response.generated

\* A request that found the counter at the limit generates nothing.
AtLimitNoGeneration ==
    response.op = "quota" =>
        \A r \in Clients :
            response.calls[r].pc \in {"generating", "generated"}
                => response.calls[r].seen_used < RewriteLimitFree

\* The whole pipeline has just run over the text.
Normalized ==
    /\ response.op = "text"
    /\ response.transform = Transform("post_process", RewriteMaxLength)

\* C27: the text the normalization pipeline produces never incurs the table
\* penalty nor the special-bullet penalty of the ATS formatting check.
C27_NormalizedTextUnpenalized ==
    Normalized =>
        LET issues == Range(CheckFormatting(response.text).issues)
        IN  "tables" \notin issues /\ "special_chars" \notin issues

\* A glyph the pipeline maps to the standard bullet is not penalized after it.
MappedGlyphsUnpenalized ==
    (Normalized /\ \A i \in DOMAIN response.before :
                      CountIn(response.before[i], SpecialChars \ bullet_replacements) = 0)
        => "special_chars" \notin Range(CheckFormatting(response.text).issues)

\* C28: in the result of JobMatcher.match every section the ATS section check
\* reports as missing is in ats_issues.missing_sections and not in
\* ats_issues.formatting_issues, and every formatting issue is in
\* formatting_issues and not in missing_sections.
C28_IssuesSplitByKind ==
    response.op = "match_ats_done" =>
        LET missing == Range(CheckSections(Flatten(response.resume_text)).missing_sections)
            formatting == Range(CheckFormatting(response.resume_text).issues)
            listed_missing == Range(response.ats_issues.missing_sections)
            listed_formatting == Range(response.ats_issues.formatting_issues)
        IN  /\ \A section \in missing :
                   section \in listed_missing /\ section \notin listed_formatting
            /\ \A issue \in formatting :
                   issue \in listed_formatting /\ issue \notin listed_missing

\* Every issue of the analysis is listed, all of them as formatting issues.
AllIssuesListedAsFormatting ==
    response.op = "match_ats_done" =>
        /\ response.ats_issues.missing_sections = <<>>
        /\ response.ats_issues.formatting_issues
               = CheckFormatting(response.resume_text).issues
                     \o CheckSections(Flatten(response.resume_text)).missing_sections

\* C29: a rewrite request for a résumé and a job reads its baseline and its
\* cached result from, and writes its new result to, only a match of that
\* same résumé and job, also when the caller names the match by its id.
C29_RewriteStaysOnOwnMatch ==
    /\ \A m \in DOMAIN matches :
           matches[m].improved_resume_data.present =>
               /\ matches[m].improved_resume_data.resume_id = matches[m].resume_id
               /\ matches[m].improved_resume_data.job_id = matches[m].job_id
    /\ (RewriteGenerated /\ response.body.match_id # 0) =>
           /\ matches[response.body.match_id].resume_id = response.body.resume_id
           /\ matches[response.body.match_id].job_id = response.body.job_id

\* Without a match id the request works on a match of its own pair.
RewriteWithoutIdOnOwnMatch ==
    (RewriteGenerated /\ response.body.match_id # 0 /\ ~response.by_match_id) =>
        /\ matches[response.body.match_id].resume_id = response.body.resume_id
        /\ matches[response.body.match_id].job_id = response.body.job_id

\* C30: in every rewrite response original_score is the score of the stored
\* original résumé text (the text handed to the planner) against the job,
\* also after rescan_improved_resume has updated the match.
C30_OriginalScoreOfOriginalText ==
    (RewriteGenerated /\ response.body.match_id # 0) =>
        /\ response.body.original_score = matches[response.body.match_id].match_score
        /\ matches[response.body.match_id].scored.resume_text
               = response.body.raw_response.request.resume_text

====
